---------------------------- MODULE Spec2Model ----------------------------
(***************************************************************************)
(* Model of the open-chart report engine: the aspect geometry of           *)
(* components/report/report-view.tsx, the highlight store of the same file *)
(* and the report envelope codec of lib/natal-request.                     *)
(*                                                                         *)
(* Numbers.  The program computes on IEEE doubles.  Angles are modelled in *)
(* fixed point: one unit is 1/Scale of a degree, Scale = 24000, so that    *)
(* one hour of motion at 0.001 degree/day is exactly one unit and the      *)
(* phase tolerance 0.0005 degree is exactly 12 units.                      *)
(***************************************************************************)
EXTENDS Integers, Sequences, FiniteSets, TLC

VARIABLES
    pc,      \* the function or handler that ran last ("init": none yet)
    args,    \* the arguments of that call
    ret,     \* the value the call returned
    localStorage,                      \* the stored highlights of the report
    highlightMenu,                     \* the open highlight menu <<[start, end]>>, or Null
    highlightSequenceRef,              \* highlightSequenceRef.current
    keepHighlightMenuOnNextClickRef,   \* keepHighlightMenuOnNextClickRef.current
    page,      \* the state of the report page, Null while it is not mounted
    now,       \* Date.now()
    runs,      \* the report-generation runs started so far, in order
    requests,  \* the requests the report page has issued, in order
    cityField, \* the state of the city field of the form (CityAutocomplete)
    searches,  \* the city searches whose timer has fired, in order
    chartDom,                 \* the elements of the chart under chartContainerRef
    selectedAspectLineKey,    \* state of the report view: the selected line key, or Null
    selectedAspectEndpoints,  \* state of the report view: <<[p1, p2]>>, or Null
    animationFrames           \* the pending requestAnimationFrame callbacks, in order

callVars == <<pc, args, ret>>

highlightVars ==
    <<localStorage, highlightMenu, highlightSequenceRef, keepHighlightMenuOnNextClickRef>>

pageVars == <<page, now, runs, requests>>

cityVars == <<cityField, searches>>

chartVars == <<chartDom, selectedAspectLineKey, selectedAspectEndpoints, animationFrames>>

vars == <<callVars, highlightVars, pageVars, cityVars, chartVars>>

\* everything but the highlight store
nonHighlightVars == <<callVars, pageVars, cityVars, chartVars>>

\* everything but the highlight store and the handler that ran last
besideHighlight == <<ret, pageVars, cityVars, chartVars>>

\* everything but the report page
nonPageVars == <<callVars, highlightVars, cityVars, chartVars>>

\* everything but the city field
nonCityVars == <<callVars, highlightVars, pageVars, chartVars>>

\* everything but the chart
nonChartVars == <<callVars, highlightVars, pageVars, cityVars>>

\* the report view and the page without the chart
restOfView == <<highlightVars, pageVars, cityVars>>

NoValue == "undefined"

\* null, for a value that is otherwise held as <<value>>
Null == <<>>

\* The report page before it is mounted: no run, no request.
InitReportPageClient ==
    /\ page = Null
    /\ now = 0
    /\ runs = <<>>
    /\ requests = <<>>

\* The report view as constructed: report-view.tsx 690-698, with nothing stored;
\* the page around it is not mounted.
InitHighlightStore ==
    /\ localStorage = <<>>
    /\ highlightMenu = Null
    /\ highlightSequenceRef = 0
    /\ keepHighlightMenuOnNextClickRef = FALSE

\* The city field as constructed (city-autocomplete.tsx 18-23), after the effects of
\* its first render: no city selected, nothing typed, no timer.
InitCityAutocomplete ==
    /\ cityField = [query |-> <<>>, results |-> <<>>, loading |-> FALSE, error |-> Null,
                    open |-> FALSE, skipNextSearchRef |-> FALSE, selectedCity |-> Null,
                    timer |-> Null]
    /\ searches = <<>>

\* The chart of the report view as constructed (report-view.tsx 686-687), before a
\* chart image is there: nothing selected, no element, no callback.
InitChartState ==
    /\ chartDom = <<>>
    /\ selectedAspectLineKey = Null
    /\ selectedAspectEndpoints = Null
    /\ animationFrames = <<>>

InitReportView ==
    /\ InitHighlightStore
    /\ InitReportPageClient
    /\ InitCityAutocomplete
    /\ InitChartState

\* A call of a pure function leaves the report view and the page alone.
PureFrame == UNCHANGED <<highlightVars, pageVars, cityVars, chartVars>>

----------------------------------------------------------------------------
(* Fixed point *)

Scale == 24 * 1000

Deg(n) == n * Scale

Abs(x) == IF x < 0 THEN -x ELSE x

Min(a, b) == IF a <= b THEN a ELSE b

Max(a, b) == IF a >= b THEN a ELSE b

\* The % of the program's language: the remainder has the sign of the dividend.
JsRem(a, n) == IF a >= 0 THEN a % n ELSE -((-a) % n)

----------------------------------------------------------------------------
(* Geometry utilities: report-view.tsx 212-232 *)

normalizeSigned180(value) ==
    LET v0 == JsRem(value, Deg(360))
        v1 == IF v0 > Deg(180) THEN v0 - Deg(360) ELSE v0
        v2 == IF v1 < -Deg(180) THEN v1 + Deg(360) ELSE v1
    IN  v2

aspectOrbFromDelta_oneSided(delta, aspectDeg) ==
    Abs(normalizeSigned180(delta - aspectDeg))

aspectOrbFromDelta(delta, aspectDeg) ==
    IF aspectDeg = 0
    THEN Abs(normalizeSigned180(delta))
    ELSE LET diffA == Abs(normalizeSigned180(delta - aspectDeg))
             diffB == Abs(normalizeSigned180(delta + aspectDeg))
         IN  Min(diffA, diffB)

normalizedDistance_noWrap(a, b) == Abs(a - b) % Deg(360)

normalizedDistance(a, b) ==
    LET raw == Abs(a - b) % Deg(360)
    IN  IF raw > Deg(180) THEN Deg(360) - raw ELSE raw

----------------------------------------------------------------------------
(* Inputs of the geometry calls: every multiple of GridStep within        *)
(* MaxGrid steps of zero, each also shifted by one unit and by half a     *)
(* degree either way.                                                      *)

MaxGrid == 48

GridStep == Deg(15)

AngleSamples ==
    { k * GridStep + e : k \in (-MaxGrid)..MaxGrid,
                         e \in {-(Scale \div 2), -1, 0, 1, Scale \div 2} }

AspectDegSamples == { Deg(d) : d \in {0, 45, 60, 72, 90, 120, 150, 180} }

InitGeometry ==
    /\ InitReportView
    /\ pc = "init"
    /\ args \in [value : AngleSamples, aspectDeg : AspectDegSamples]
    /\ ret = NoValue

CallNormalizeSigned180 ==
    /\ pc = "init"
    /\ args.aspectDeg = 0
    /\ ret' = normalizeSigned180(args.value)
    /\ pc' = "normalizeSigned180"
    /\ UNCHANGED args
    /\ PureFrame

CallAspectOrbFromDelta ==
    /\ pc = "init"
    /\ ret' = aspectOrbFromDelta(args.value, args.aspectDeg)
    /\ pc' = "aspectOrbFromDelta"
    /\ UNCHANGED args
    /\ PureFrame

NextGeometry == CallNormalizeSigned180 \/ CallAspectOrbFromDelta

SpecGeometry == InitGeometry /\ [][NextGeometry]_vars

\* a and b differ by a whole number of turns
Congruent360(a, b) == (a - b) % Deg(360) = 0

\* C1: for every angle a, normalizeSigned180(a) lies in (-180, 180] and is
\* congruent to a modulo 360.
C1_NormalizeHalfOpen ==
    pc = "normalizeSigned180" =>
        /\ ret > -Deg(180)
        /\ ret <= Deg(180)
        /\ Congruent360(ret, args.value)

\* C2: aspectOrbFromDelta gives the same result for delta and -delta, the
\* result lies in [0, 180], and it is |normalize(delta)| for degree 0 and
\* min(|normalize(delta - deg)|, |normalize(delta + deg)|) otherwise.
C2_OrbSymmetricBounded ==
    pc = "aspectOrbFromDelta" =>
        /\ ret = aspectOrbFromDelta(-args.value, args.aspectDeg)
        /\ ret >= 0
        /\ ret <= Deg(180)
        /\ args.aspectDeg = 0 => ret = Abs(normalizeSigned180(args.value))
        /\ args.aspectDeg # 0 =>
               ret = Min(Abs(normalizeSigned180(args.value - args.aspectDeg)),
                         Abs(normalizeSigned180(args.value + args.aspectDeg)))

C2_Witness ==
    /\ pc = "aspectOrbFromDelta"
    /\ args.aspectDeg = Deg(90)
    /\ args.value = -Deg(270) - 1
    /\ ret = 1

----------------------------------------------------------------------------
(* Aspect strength: report-view.tsx 174-182 *)

\* Math.round: the nearest integer, a tie going up; x is in units.
MathRound(x) == (2 * x + Scale) \div (2 * Scale)

getAspectStrength_strictFirst(orb) ==
    LET score == Max(5, Min(100, MathRound(Deg(100) - orb * 10)))
    IN  IF orb < Deg(3) \div 2 THEN [label |-> "Very strong", score |-> score]
        ELSE IF orb <= Deg(3) THEN [label |-> "Strong", score |-> score]
        ELSE IF orb <= Deg(5) THEN [label |-> "Moderate", score |-> score]
        ELSE IF orb <= Deg(7) THEN [label |-> "Subtle", score |-> score]
        ELSE [label |-> "Faint", score |-> score]

getAspectStrength(orb) ==
    LET score == Max(5, Min(100, MathRound(Deg(100) - orb * 10)))
    IN  IF orb <= Deg(3) \div 2 THEN [label |-> "Very strong", score |-> score]
        ELSE IF orb <= Deg(3) THEN [label |-> "Strong", score |-> score]
        ELSE IF orb <= Deg(5) THEN [label |-> "Moderate", score |-> score]
        ELSE IF orb <= Deg(7) THEN [label |-> "Subtle", score |-> score]
        ELSE [label |-> "Faint", score |-> score]

\* Orbs are drawn in hundredths of a degree, 0 .. MaxOrbCenti.
MaxOrbCenti == 2500

Centi(c) == c * (Scale \div 100)

InitStrength ==
    /\ InitReportView
    /\ pc = "init"
    /\ args \in [centi : 0..MaxOrbCenti]
    /\ ret = NoValue

CallGetAspectStrength ==
    /\ pc = "init"
    /\ ret' = getAspectStrength(Centi(args.centi))
    /\ pc' = "getAspectStrength"
    /\ UNCHANGED args
    /\ PureFrame

NextStrength == CallGetAspectStrength

SpecStrength == InitStrength /\ [][NextStrength]_vars

\* The label and score the claim states, for an orb of c hundredths of a degree.
ClaimedLabel(c) ==
    IF c <= 150 THEN "Very strong"
    ELSE IF c <= 300 THEN "Strong"
    ELSE IF c <= 500 THEN "Moderate"
    ELSE IF c <= 700 THEN "Subtle"
    ELSE "Faint"

ClaimedScore(c) ==
    LET rounded == (1005 - c) \div 10     \* round(100 - c/10), a tie going up
    IN  IF rounded < 5 THEN 5 ELSE IF rounded > 100 THEN 100 ELSE rounded

\* C4: the label is "Very strong" for orb <= 1.5, "Strong" up to 3, "Moderate"
\* up to 5, "Subtle" up to 7 and "Faint" above; the score is round(100 - 10*orb)
\* clamped to [5, 100]: 100 at orb 0, 5 at orb 20, never outside [5, 100].
C4_StrengthTable ==
    pc = "getAspectStrength" =>
        /\ ret.label = ClaimedLabel(args.centi)
        /\ ret.score = ClaimedScore(args.centi)
        /\ ret.score >= 5 /\ ret.score <= 100
        /\ args.centi = 0 => ret.score = 100
        /\ args.centi = 2000 => ret.score = 5
        /\ args.centi = 150 => ret.label = "Very strong"
        /\ args.centi = 151 => ret.label = "Strong"
        /\ args.centi = 700 => ret.label = "Subtle"
        /\ args.centi = 701 => ret.label = "Faint"

C4_Witness ==
    /\ pc = "getAspectStrength"
    /\ args.centi = 2000
    /\ ret = [label |-> "Faint", score |-> 5]

----------------------------------------------------------------------------
(* Aspect deduplication: report-view.tsx 184-210 *)

\* String.prototype.toLowerCase on the endpoint and type names of the model
ToLowerCase(s) ==
    CASE s \in {"Sun", "SUN", "sun"} -> "sun"
      [] s \in {"Moon", "moon"} -> "moon"
      [] s \in {"Mars", "mars"} -> "mars"
      [] s \in {"Square", "square"} -> "square"
      [] s \in {"Trine", "trine"} -> "trine"
      [] s \in {"Pluto", "pluto"} -> "pluto"
      [] s \in {"ASC", "Asc", "asc"} -> "asc"
      [] s \in {"MC", "Mc", "mc"} -> "mc"
      [] s \in {"Ascendant", "ascendant"} -> "ascendant"
      [] s \in {"Midheaven", "midheaven"} -> "midheaven"
      [] OTHER -> s

\* The order of Array.prototype.sort without a comparator (by code units) on
\* the lower-case names of the model, as a rank.
StringRank(s) ==
    CASE s = "asc" -> 1
      [] s = "mars" -> 2
      [] s = "mc" -> 3
      [] s = "moon" -> 4
      [] s = "pluto" -> 5
      [] s = "sun" -> 6
      [] OTHER -> 7

\* [left, right].sort()
SortPair(left, right) ==
    IF StringRank(right) < StringRank(left) THEN <<right, left>> ELSE <<left, right>>

\* sortAspects: [...aspects].sort((a, b) => a.orb - b.orb), a stable sort
RECURSIVE InsertByOrb(_, _)
InsertByOrb(sorted, aspect) ==
    IF sorted = <<>> THEN <<aspect>>
    ELSE IF sorted[Len(sorted)].orb <= aspect.orb THEN Append(sorted, aspect)
    ELSE Append(InsertByOrb(SubSeq(sorted, 1, Len(sorted) - 1), aspect),
                sorted[Len(sorted)])

RECURSIVE SortFrom(_, _, _)
SortFrom(aspects, i, sorted) ==
    IF i > Len(aspects) THEN sorted
    ELSE SortFrom(aspects, i + 1, InsertByOrb(sorted, aspects[i]))

sortAspects_asGiven(aspects) == aspects

sortAspects(aspects) == SortFrom(aspects, 1, <<>>)

\* the key of the Map bestByKey
AspectKey_unsortedPair(aspect) ==
    <<ToLowerCase(aspect.p1), ToLowerCase(aspect.p2), ToLowerCase(aspect.type), aspect.deg>>

AspectKey(aspect) ==
    LET ab == SortPair(ToLowerCase(aspect.p1), ToLowerCase(aspect.p2))
    IN  <<ab[1], ab[2], ToLowerCase(aspect.type), aspect.deg>>

\* Map.get: the position of the key in the Map's insertion order, 0 when absent
MapIndex(best, key) ==
    IF \E i \in 1..Len(best) : best[i].key = key
    THEN CHOOSE i \in 1..Len(best) : best[i].key = key
    ELSE 0

RECURSIVE DedupeFrom(_, _, _)
DedupeFrom(aspects, i, bestByKey) ==
    IF i > Len(aspects) THEN bestByKey
    ELSE LET aspect == aspects[i]
             left == ToLowerCase(aspect.p1)
             right == ToLowerCase(aspect.p2)
             key == AspectKey(aspect)
             at == MapIndex(bestByKey, key)
         IN  IF left = right
             THEN DedupeFrom(aspects, i + 1, bestByKey)
             ELSE IF at = 0
             THEN DedupeFrom(aspects, i + 1,
                             Append(bestByKey, [key |-> key, value |-> aspect]))
             ELSE IF aspect.orb < bestByKey[at].value.orb
             THEN DedupeFrom(aspects, i + 1,
                             [bestByKey EXCEPT ![at].value = aspect])
             ELSE DedupeFrom(aspects, i + 1, bestByKey)

dedupeAspects(aspects) ==
    LET bestByKey == DedupeFrom(aspects, 1, <<>>)
    IN  [i \in 1..Len(bestByKey) |-> bestByKey[i].value]

\* Upstream aspect lists of up to MaxAspects records.
MaxAspects == 3

EndpointPairSamples ==
    { <<"sun", "Moon">>, <<"moon", "SUN">>, <<"Sun", "sun">>, <<"moon", "mars">> }

TypeDegSamples == { <<"square", Deg(90)>>, <<"Square", Deg(90)>>, <<"trine", Deg(120)>> }

AspectSamples ==
    { [p1 |-> e[1], p2 |-> e[2], type |-> t[1], deg |-> t[2], orb |-> o, is_major |-> TRUE] :
        e \in EndpointPairSamples, t \in TypeDegSamples, o \in {Deg(1), Deg(2)} }

InitDedupe ==
    /\ InitReportView
    /\ pc = "init"
    /\ args \in UNION { [1..n -> AspectSamples] : n \in 0..MaxAspects }
    /\ ret = NoValue

CallDedupeAspects ==
    /\ pc = "init"
    /\ ret' = dedupeAspects(args)
    /\ pc' = "dedupeAspects"
    /\ UNCHANGED args
    /\ PureFrame

NextDedupe == CallDedupeAspects

SpecDedupe == InitDedupe /\ [][NextDedupe]_vars

IsSelfPair(aspect) == ToLowerCase(aspect.p1) = ToLowerCase(aspect.p2)

\* The group of a record: the unordered pair of its lower-case endpoints, its
\* type (compared, as the endpoints, without case) and its exact degree.
GroupOf(aspect) ==
    <<{ToLowerCase(aspect.p1), ToLowerCase(aspect.p2)}, ToLowerCase(aspect.type), aspect.deg>>

\* C3: the output of dedupeAspects holds no self-pair, at most one record for
\* each group, every record of it is an input record whose orb is the smallest
\* of its group in the input, and every group of the input that is not a
\* self-pair is represented.
C3_DedupeKeepsSmallestOrb ==
    pc = "dedupeAspects" =>
        /\ \A i \in 1..Len(ret) : ~IsSelfPair(ret[i])
        /\ \A i, j \in 1..Len(ret) : GroupOf(ret[i]) = GroupOf(ret[j]) => i = j
        /\ \A i \in 1..Len(ret) : \E j \in 1..Len(args) : ret[i] = args[j]
        /\ \A i \in 1..Len(ret) : \A j \in 1..Len(args) :
               GroupOf(args[j]) = GroupOf(ret[i]) => ret[i].orb <= args[j].orb
        /\ \A j \in 1..Len(args) :
               ~IsSelfPair(args[j]) =>
                   \E i \in 1..Len(ret) : GroupOf(ret[i]) = GroupOf(args[j])

C3_Witness ==
    /\ pc = "dedupeAspects"
    /\ Len(args) = 3
    /\ args[1].p1 = "sun" /\ args[1].p2 = "Moon" /\ args[1].orb = Deg(2)
    /\ args[2].p1 = "Sun" /\ args[2].p2 = "sun"
    /\ args[3].p1 = "moon" /\ args[3].p2 = "SUN" /\ args[3].orb = Deg(1)
    /\ GroupOf(args[1]) = GroupOf(args[3])
    /\ ret = <<args[3]>>

----------------------------------------------------------------------------
(* Angle aspects: report-view.tsx 234-272 *)

\* A value that may be absent: <<>> is undefined, <<x>> is the value x.
Undefined == <<>>

Some(x) == <<x>>

IsNumber(opt) == Len(opt) = 1

MAJOR_ANGLE_ASPECTS_wideSextile ==
    << [type |-> "conjunction", deg |-> Deg(0), maxOrb |-> Deg(6)],
       [type |-> "sextile", deg |-> Deg(60), maxOrb |-> Deg(25)],
       [type |-> "square", deg |-> Deg(90), maxOrb |-> Deg(6)],
       [type |-> "trine", deg |-> Deg(120), maxOrb |-> Deg(6)],
       [type |-> "opposition", deg |-> Deg(180), maxOrb |-> Deg(6)] >>

MAJOR_ANGLE_ASPECTS ==
    << [type |-> "conjunction", deg |-> Deg(0), maxOrb |-> Deg(6)],
       [type |-> "sextile", deg |-> Deg(60), maxOrb |-> Deg(9) \div 2],
       [type |-> "square", deg |-> Deg(90), maxOrb |-> Deg(6)],
       [type |-> "trine", deg |-> Deg(120), maxOrb |-> Deg(6)],
       [type |-> "opposition", deg |-> Deg(180), maxOrb |-> Deg(6)] >>

\* Number(orb.toFixed(2)) for orb >= 0: the nearest hundredth of a degree, a
\* tie going up.
ToFixed2(orb) == ((2 * orb + Centi(1)) \div (2 * Centi(1))) * Centi(1)

\* the inner loop over MAJOR_ANGLE_ASPECTS for one planet
RECURSIVE CandidatesFrom(_, _, _, _, _)
CandidatesFrom(angleKey, planet, distance, c, result) ==
    IF c > Len(MAJOR_ANGLE_ASPECTS) THEN result
    ELSE LET candidate == MAJOR_ANGLE_ASPECTS[c]
             orb == Abs(distance - candidate.deg)
         IN  IF orb <= candidate.maxOrb
             THEN CandidatesFrom(angleKey, planet, distance, c + 1,
                      Append(result, [p1 |-> angleKey, p2 |-> planet.id,
                                      type |-> candidate.type, orb |-> ToFixed2(orb),
                                      deg |-> candidate.deg, is_major |-> TRUE]))
             ELSE CandidatesFrom(angleKey, planet, distance, c + 1, result)

\* the outer loop over the planets
RECURSIVE PlanetsFrom(_, _, _, _, _)
PlanetsFrom(angleKey, angleAbsPos, planets, i, result) ==
    IF i > Len(planets) THEN result
    ELSE PlanetsFrom(angleKey, angleAbsPos, planets, i + 1,
             CandidatesFrom(angleKey, planets[i],
                            normalizedDistance(angleAbsPos, planets[i].abs_pos), 1, result))

deriveAngleAspects(angleKey, angleAbsPos, planets) ==
    IF ~IsNumber(angleAbsPos) THEN <<>>
    ELSE sortAspects(PlanetsFrom(angleKey, angleAbsPos[1], planets, 1, <<>>))

\* Charts of up to MaxPlanets planets; the i-th planet of a chart has the i-th id.
MaxPlanets == 2

PlanetIds == <<"sun", "moon", "mars", "pluto">>

\* planet longitudes, in thousandths of a degree
PlanetPosSamples ==
    { m * (Scale \div 1000) :
        m \in { 0, 6000, 6005, 30000, 55500, 64500, 64510, 84000, 90000, 95900,
                95904, 95905, 96000, 96400, 114000, 126000, 174000, 180000,
                186000, 270000, 354000, 359990, 450000 } }

AngleRefSamples == { Some(Deg(0)), Some(Deg(350)), Undefined }

PlanetLists ==
    UNION { { [i \in 1..n |-> [id |-> PlanetIds[i], abs_pos |-> pos[i]]] :
                pos \in [1..n -> PlanetPosSamples] } : n \in 0..MaxPlanets }

InitAngle ==
    /\ InitReportView
    /\ pc = "init"
    /\ args \in [angleKey : {"asc", "mc"}, angleAbsPos : AngleRefSamples,
                 planets : PlanetLists]
    /\ ret = NoValue

CallDeriveAngleAspects ==
    /\ pc = "init"
    /\ ret' = deriveAngleAspects(args.angleKey, args.angleAbsPos, args.planets)
    /\ pc' = "deriveAngleAspects"
    /\ UNCHANGED args
    /\ PureFrame

NextAngle == CallDeriveAngleAspects

SpecAngle == InitAngle /\ [][NextAngle]_vars

\* The shortest angular distance between two longitudes: the least |a - b + 360 k|.
CircularDistance(a, b) ==
    LET ds == { Abs(a - b + k * Deg(360)) : k \in -3..3 }
    IN  CHOOSE d \in ds : \A e \in ds : d <= e

\* The canonical table as the claim states it: type, exact degree, maximum orb
\* in hundredths of a degree.
ClaimedTable ==
    { <<"conjunction", 0, 600>>, <<"sextile", 60, 450>>, <<"square", 90, 600>>,
      <<"trine", 120, 600>>, <<"opposition", 180, 600>> }

\* the deviation of planet p from the exact degree of table row t
Deviation(ref, p, t) == Abs(CircularDistance(ref, p.abs_pos) - Deg(t[2]))

\* C5: deriveAngleAspects emits a record for planet p and canonical aspect t if
\* and only if |circularDistance(reference, p) - exactDegree| <= maxOrb; the
\* record carries p1 = the angle key, p2 = the planet id, the table's type and
\* degree, the deviation to 2 decimals as orb, and is_major = true.  With
\* reference 0 a planet at 90 gives one record (square, orb 0), a planet at
\* 96.4 none, a planet at 95.9 a square with orb 5.9.
C5_AngleAspectsIff ==
    pc = "deriveAngleAspects" /\ IsNumber(args.angleAbsPos) =>
        LET ref == args.angleAbsPos[1]
            planets == args.planets
        IN  /\ \A i \in 1..Len(planets) : \A t \in ClaimedTable :
                   (\E r \in 1..Len(ret) : ret[r].p2 = planets[i].id /\ ret[r].type = t[1])
                   <=> Deviation(ref, planets[i], t) <= Centi(t[3])
            /\ \A r \in 1..Len(ret) :
                   \E i \in 1..Len(planets) : \E t \in ClaimedTable :
                       ret[r] = [p1 |-> args.angleKey, p2 |-> planets[i].id,
                                 type |-> t[1], deg |-> Deg(t[2]), is_major |-> TRUE,
                                 orb |-> ToFixed2(Deviation(ref, planets[i], t))]
            /\ \A r, q \in 1..Len(ret) :
                   ret[r].p2 = ret[q].p2 /\ ret[r].type = ret[q].type => r = q
            /\ ref = 0 /\ Len(planets) = 1 =>
                   /\ planets[1].abs_pos = Deg(90) =>
                          ret = << [p1 |-> args.angleKey, p2 |-> planets[1].id,
                                    type |-> "square", deg |-> Deg(90),
                                    orb |-> 0, is_major |-> TRUE] >>
                   /\ planets[1].abs_pos = Centi(9640) => ret = <<>>
                   /\ planets[1].abs_pos = Centi(9590) =>
                          /\ Len(ret) = 1
                          /\ ret[1].type = "square"
                          /\ ret[1].orb = Centi(590)

C5_Witness ==
    /\ pc = "deriveAngleAspects"
    /\ args.angleAbsPos = Some(Deg(0))
    /\ Len(args.planets) = 2
    /\ args.planets[1].abs_pos = Deg(96)
    /\ args.planets[2].abs_pos = Centi(6450)
    /\ Len(ret) = 2
    /\ ret[1].p2 = "moon" /\ ret[1].type = "sextile" /\ ret[1].orb = Centi(450)
    /\ ret[2].p2 = "sun" /\ ret[2].type = "square" /\ ret[2].orb = Deg(6)

----------------------------------------------------------------------------
(* Aspect phase: report-view.tsx 431-462 and 712-728 *)
(* A planet's speed is held in thousandths of a degree per day.            *)

getSignedSpeed_zeroWhenMissing(planet) ==
    IF ~IsNumber(planet.speed) THEN Some(0)
    ELSE LET magnitude == Abs(planet.speed[1])
         IN  Some(IF planet.retrograde THEN -magnitude ELSE magnitude)

getSignedSpeed(planet) ==
    IF ~IsNumber(planet.speed) THEN Undefined
    ELSE LET magnitude == Abs(planet.speed[1])
         IN  Some(IF planet.retrograde THEN -magnitude ELSE magnitude)

\* The Map pointState, as a function on the keys it holds: the first planet of
\* each lower-case id, then the four angle keys, which replace a planet's entry.
pointState(data) ==
    LET planets == data.planets
        planetKeys == { ToLowerCase(planets[i].id) : i \in 1..Len(planets) }
        First(key) == CHOOSE i \in 1..Len(planets) :
                          /\ ToLowerCase(planets[i].id) = key
                          /\ \A j \in 1..(i - 1) : ToLowerCase(planets[j].id) # key
    IN  [ key \in planetKeys \cup {"asc", "ascendant", "mc", "midheaven"} |->
            IF key \in {"asc", "ascendant"}
            THEN [lon |-> data.angles.asc, speed |-> Some(0)]
            ELSE IF key \in {"mc", "midheaven"}
            THEN [lon |-> data.angles.mc, speed |-> Some(0)]
            ELSE [lon |-> planets[First(key)].abs_pos,
                  speed |-> getSignedSpeed(planets[First(key)])] ]

\* speed * dtDays with dtDays = 1/24, in units
TimesDtDays(speed) == (speed * Scale) \div (1000 * 24)

\* 0.0005 degree, in units
PhaseTolerance == (5 * Scale) \div 10000

getAspectPhase_secondMoves(aspect, points) ==
    LET k1 == ToLowerCase(aspect.p1)
        k2 == ToLowerCase(aspect.p2)
    IN  IF k1 \notin DOMAIN points \/ k2 \notin DOMAIN points THEN "Unknown"
        ELSE LET p1 == points[k1]
                 p2 == points[k2]
             IN  IF ~IsNumber(p1.speed) \/ ~IsNumber(p2.speed) THEN "Unknown"
                 ELSE LET deltaNow == normalizeSigned180(p2.lon - p1.lon)
                          orbNow == aspectOrbFromDelta(deltaNow, aspect.deg)
                          deltaFuture == normalizeSigned180(
                              (p2.lon + TimesDtDays(p2.speed[1])) - p1.lon)
                          orbFuture == aspectOrbFromDelta(deltaFuture, aspect.deg)
                      IN  IF Abs(orbFuture - orbNow) < PhaseTolerance THEN "Unknown"
                          ELSE IF orbFuture < orbNow THEN "Applying" ELSE "Separating"

getAspectPhase_flipped(aspect, points) ==
    LET k1 == ToLowerCase(aspect.p1)
        k2 == ToLowerCase(aspect.p2)
    IN  IF k1 \notin DOMAIN points \/ k2 \notin DOMAIN points THEN "Unknown"
        ELSE LET p1 == points[k1]
                 p2 == points[k2]
             IN  IF ~IsNumber(p1.speed) \/ ~IsNumber(p2.speed) THEN "Unknown"
                 ELSE LET deltaNow == normalizeSigned180(p2.lon - p1.lon)
                          orbNow == aspectOrbFromDelta(deltaNow, aspect.deg)
                          deltaFuture == normalizeSigned180(
                              (p2.lon + TimesDtDays(p2.speed[1]))
                              - (p1.lon + TimesDtDays(p1.speed[1])))
                          orbFuture == aspectOrbFromDelta(deltaFuture, aspect.deg)
                      IN  IF Abs(orbFuture - orbNow) < PhaseTolerance THEN "Unknown"
                          ELSE IF orbFuture > orbNow THEN "Applying" ELSE "Separating"

getAspectPhase(aspect, points) ==
    LET k1 == ToLowerCase(aspect.p1)
        k2 == ToLowerCase(aspect.p2)
    IN  IF k1 \notin DOMAIN points \/ k2 \notin DOMAIN points THEN "Unknown"
        ELSE LET p1 == points[k1]
                 p2 == points[k2]
             IN  IF ~IsNumber(p1.speed) \/ ~IsNumber(p2.speed) THEN "Unknown"
                 ELSE LET deltaNow == normalizeSigned180(p2.lon - p1.lon)
                          orbNow == aspectOrbFromDelta(deltaNow, aspect.deg)
                          deltaFuture == normalizeSigned180(
                              (p2.lon + TimesDtDays(p2.speed[1]))
                              - (p1.lon + TimesDtDays(p1.speed[1])))
                          orbFuture == aspectOrbFromDelta(deltaFuture, aspect.deg)
                      IN  IF Abs(orbFuture - orbNow) < PhaseTolerance THEN "Unknown"
                          ELSE IF orbFuture < orbNow THEN "Applying" ELSE "Separating"

\* Charts of the phase calls: Sun and Moon, the Moon within MaxLonSteps steps of
\* 5 degrees of longitude 100, and the two chart angles.
MaxLonSteps == 1

SpeedSamplesSun == { Undefined, Some(1000), Some(-1000) }

SpeedSamplesMoon == { Undefined, Some(13000), Some(1011), Some(1012), Some(988) }

PhaseData ==
    { [planets |-> << [id |-> "sun", abs_pos |-> sl, speed |-> ss, retrograde |-> sr],
                      [id |-> "moon", abs_pos |-> Deg(100) + k * Deg(5), speed |-> ms,
                       retrograde |-> mr] >>,
       angles |-> [asc |-> Deg(10), mc |-> mc]] :
        sl \in {Deg(10), Deg(355)}, ss \in SpeedSamplesSun, sr \in BOOLEAN,
        k \in (-MaxLonSteps)..MaxLonSteps, ms \in SpeedSamplesMoon, mr \in BOOLEAN,
        mc \in {Deg(100), Deg(280)} }

PhaseAspects ==
    [p1 : {"Sun", "moon", "asc", "MC", "pluto"}, p2 : {"Sun", "moon", "asc", "MC", "pluto"},
     deg : {Deg(0), Deg(90), Deg(180)}]

InitPhase ==
    /\ InitReportView
    /\ pc = "init"
    /\ args \in [data : PhaseData, aspect : PhaseAspects]
    /\ ret = NoValue

CallGetAspectPhase ==
    /\ pc = "init"
    /\ ret' = getAspectPhase(args.aspect, pointState(args.data))
    /\ pc' = "getAspectPhase"
    /\ UNCHANGED args
    /\ PureFrame

NextPhase == CallGetAspectPhase

SpecPhase == InitPhase /\ [][NextPhase]_vars

AngleTokens == {"asc", "ascendant", "mc", "midheaven"}

\* The endpoint a token names in the chart: a chart angle, else the first planet
\* of that id; motion is the signed advance in one hour, backwards when the
\* planet is retrograde.  known: the chart has the point; moving: its speed is
\* a number.
EndpointOf(data, token) ==
    LET key == ToLowerCase(token)
        hits == { i \in 1..Len(data.planets) : ToLowerCase(data.planets[i].id) = key }
    IN  IF key \in {"asc", "ascendant"}
        THEN [known |-> TRUE, moving |-> TRUE, lon |-> data.angles.asc, motion |-> 0]
        ELSE IF key \in {"mc", "midheaven"}
        THEN [known |-> TRUE, moving |-> TRUE, lon |-> data.angles.mc, motion |-> 0]
        ELSE IF hits = {}
        THEN [known |-> FALSE, moving |-> FALSE, lon |-> 0, motion |-> 0]
        ELSE LET planet == data.planets[CHOOSE i \in hits : \A j \in hits : i <= j]
             IN  IF planet.speed = Undefined
                 THEN [known |-> TRUE, moving |-> FALSE, lon |-> planet.abs_pos, motion |-> 0]
                 ELSE [known |-> TRUE, moving |-> TRUE, lon |-> planet.abs_pos,
                       motion |-> IF planet.retrograde THEN -Abs(planet.speed[1])
                                  ELSE Abs(planet.speed[1])]

\* the orb of an aspect of exact degree deg between longitudes a and b
OrbBetween(a, b, deg) == Abs(CircularDistance(a, b) - deg)

OrbNowOf(a) ==
    OrbBetween(EndpointOf(a.data, a.aspect.p1).lon, EndpointOf(a.data, a.aspect.p2).lon,
               a.aspect.deg)

OrbFutureOf(a) ==
    LET e1 == EndpointOf(a.data, a.aspect.p1)
        e2 == EndpointOf(a.data, a.aspect.p2)
    IN  OrbBetween(e1.lon + e1.motion, e2.lon + e2.motion, a.aspect.deg)

BothMoving(a) ==
    /\ EndpointOf(a.data, a.aspect.p1).moving
    /\ EndpointOf(a.data, a.aspect.p2).moving

\* C6: with a known signed speed at both endpoints, the phase is "Applying"
\* exactly when the orb projected one hour forward is smaller than the orb now
\* by at least the tolerance, and "Separating" exactly when it is larger by at
\* least the tolerance; Sun at 10 (+1/day) and Moon at 100 (+13/day) under a
\* square are "Separating".
C6_PhaseFollowsProjectedOrb ==
    pc = "getAspectPhase" /\ BothMoving(args) =>
        /\ ret = "Applying" <=> OrbFutureOf(args) <= OrbNowOf(args) - PhaseTolerance
        /\ ret = "Separating" <=> OrbFutureOf(args) >= OrbNowOf(args) + PhaseTolerance
        /\ ( /\ args.aspect = [p1 |-> "Sun", p2 |-> "moon", deg |-> Deg(90)]
             /\ args.data.planets[1] =
                    [id |-> "sun", abs_pos |-> Deg(10), speed |-> Some(1000),
                     retrograde |-> FALSE]
             /\ args.data.planets[2] =
                    [id |-> "moon", abs_pos |-> Deg(100), speed |-> Some(13000),
                     retrograde |-> FALSE] )
           => ret = "Separating"

C6_Witness ==
    /\ pc = "getAspectPhase"
    /\ args.aspect = [p1 |-> "Sun", p2 |-> "moon", deg |-> Deg(90)]
    /\ args.data.planets[1].abs_pos = Deg(10)
    /\ args.data.planets[1].speed = Some(1000)
    /\ args.data.planets[1].retrograde
    /\ args.data.planets[2].abs_pos = Deg(105)
    /\ args.data.planets[2].speed = Some(13000)
    /\ args.data.planets[2].retrograde
    /\ ret = "Applying"

\* C7: the phase is "Unknown" whenever an endpoint is absent from the chart or
\* has no numeric speed, and whenever the projected orb differs from the orb now
\* by less than the tolerance; an aspect between two chart angles is "Unknown".
C7_PhaseUnknown ==
    pc = "getAspectPhase" =>
        /\ ~BothMoving(args) => ret = "Unknown"
        /\ ( BothMoving(args)
             /\ Abs(OrbFutureOf(args) - OrbNowOf(args)) < PhaseTolerance )
           => ret = "Unknown"
        /\ ( ToLowerCase(args.aspect.p1) \in AngleTokens
             /\ ToLowerCase(args.aspect.p2) \in AngleTokens )
           => ret = "Unknown"

C7_Witness ==
    /\ pc = "getAspectPhase"
    /\ args.aspect.p1 = "Sun" /\ args.aspect.p2 = "moon"
    /\ args.data.planets[1].speed = Some(1000)
    /\ ~args.data.planets[1].retrograde
    /\ args.data.planets[2].speed = Undefined
    /\ ret = "Unknown"

----------------------------------------------------------------------------
(* Highlight store: report-view.tsx 886-925 and 1262-1397 *)
(* The report text is 30 characters long, of which the last five are white *)
(* space; selections start and end at the offsets of OffsetSamples.        *)

OffsetSamples == {10, 20, 25, 30}

WhitespaceOffsets == 25..29

HIGHLIGHT_COLORS == <<"#fff3a3", "#c7f4c2", "#b8e1ff", "#ffd4de">>

\* at most MaxHighlights ranges are stored and MaxSequence ids minted
MaxHighlights == 2

MaxSequence == 3

\* the decimal digits of a natural number
RECURSIVE DecimalDigits(_)
DecimalDigits(n) ==
    IF n < 10 THEN <<48 + n>> ELSE Append(DecimalDigits(n \div 10), 48 + (n % 10))

mintHighlightId_sequenceOnly(start, end, sequence) ==
    <<104, 45>> \o DecimalDigits(sequence)

\* `h-${start}-${end}-${highlightSequenceRef.current}`
mintHighlightId(start, end, sequence) ==
    <<104, 45>> \o DecimalDigits(start) \o <<45>> \o DecimalDigits(end) \o <<45>>
    \o DecimalDigits(sequence)

\* the filters of the load: start >= 0 and end > start
highlights ==
    SelectSeq(localStorage, LAMBDA item : item.start >= 0 /\ item.end > item.start)

\* persistHighlights: the write may fail (it is ignored), the view renders again
persistHighlights(next, writeOk) ==
    localStorage' = IF writeOk THEN next ELSE localStorage

Overlaps_leftOnly(start, end, item) == start < item.start /\ end > item.start

\* the test of addHighlight: start < item.end && end > item.start
Overlaps(start, end, item) == start < item.end /\ end > item.start

\* Whether the browser reports the container of a selection boundary at
\* offset pos as a text node inside a marker: it does strictly inside a stored
\* range, it may or may not at the first or last offset of one.
InsideMarkerOptions(pos) ==
    IF \E i \in 1..Len(highlights) : highlights[i].start < pos /\ pos < highlights[i].end
    THEN {TRUE}
    ELSE IF \E i \in 1..Len(highlights) : pos \in {highlights[i].start, highlights[i].end}
    THEN {TRUE, FALSE}
    ELSE {FALSE}

\* selection.toString().trim() is empty
OnlyWhitespace(start, end) == \A k \in start..(end - 1) : k \in WhitespaceOffsets

\* mouseup / selectionchange with a non-collapsed selection [start, end)
syncHighlightMenuFromSelection ==
    \E start \in OffsetSamples, end \in OffsetSamples, inScope \in BOOLEAN :
    \E startInMarker \in InsideMarkerOptions(start), endInMarker \in InsideMarkerOptions(end) :
        /\ start < end
        /\ IF ~inScope \/ startInMarker \/ endInMarker \/ OnlyWhitespace(start, end)
           THEN /\ highlightMenu' = Null
                /\ UNCHANGED keepHighlightMenuOnNextClickRef
           ELSE /\ highlightMenu' = <<[start |-> start, end |-> end]>>
                /\ keepHighlightMenuOnNextClickRef' = TRUE
        /\ pc' = "syncHighlightMenuFromSelection"
        /\ args' = <<>>
        /\ UNCHANGED <<localStorage, highlightSequenceRef, besideHighlight>>

\* mousedown on the menu button of a colour
addHighlight(color, writeOk) ==
    /\ highlightMenu # Null
    /\ LET start == highlightMenu[1].start
           end == highlightMenu[1].end
           overlaps == \E i \in 1..Len(highlights) : Overlaps(start, end, highlights[i])
       IN  IF overlaps
           THEN /\ highlightMenu' = Null
                /\ UNCHANGED <<localStorage, highlightSequenceRef>>
           ELSE /\ highlightSequenceRef < MaxSequence
                /\ Len(highlights) < MaxHighlights
                /\ highlightSequenceRef' = highlightSequenceRef + 1
                /\ persistHighlights(
                       Append(highlights,
                              [id |-> mintHighlightId(start, end, highlightSequenceRef + 1),
                               start |-> start, end |-> end, color |-> color]),
                       writeOk)
                /\ highlightMenu' = Null
    /\ pc' = "addHighlight"
    /\ args' = <<>>
    /\ UNCHANGED <<keepHighlightMenuOnNextClickRef, besideHighlight>>

onClickMarker_ignoresSelection(id, hasActiveSelection, writeOk) ==
    /\ \E i \in 1..Len(highlights) : highlights[i].id = id
    /\ persistHighlights(SelectSeq(highlights, LAMBDA item : item.id # id), writeOk)
    /\ highlightMenu' = Null
    /\ pc' = "onClickMarker"
    /\ args' = [id |-> id, hasActiveSelection |-> hasActiveSelection, writeOk |-> writeOk]
    /\ UNCHANGED <<highlightSequenceRef, keepHighlightMenuOnNextClickRef, besideHighlight>>

\* click on the marker of the stored range with this id
onClickMarker(id, hasActiveSelection, writeOk) ==
    /\ \E i \in 1..Len(highlights) : highlights[i].id = id
    /\ IF hasActiveSelection
       THEN UNCHANGED <<localStorage, highlightMenu>>
       ELSE /\ persistHighlights(SelectSeq(highlights, LAMBDA item : item.id # id), writeOk)
            /\ highlightMenu' = Null
    /\ pc' = "onClickMarker"
    /\ args' = [id |-> id, hasActiveSelection |-> hasActiveSelection, writeOk |-> writeOk]
    /\ UNCHANGED <<highlightSequenceRef, keepHighlightMenuOnNextClickRef, besideHighlight>>

\* click anywhere else
onClickElsewhere(inMenu, hasActiveSelection) ==
    /\ IF inMenu \/ hasActiveSelection
       THEN UNCHANGED <<highlightMenu, keepHighlightMenuOnNextClickRef>>
       ELSE IF keepHighlightMenuOnNextClickRef
       THEN /\ keepHighlightMenuOnNextClickRef' = FALSE
            /\ UNCHANGED highlightMenu
       ELSE /\ highlightMenu' = Null
            /\ UNCHANGED keepHighlightMenuOnNextClickRef
    /\ pc' = "onClickElsewhere"
    /\ args' = <<>>
    /\ UNCHANGED <<localStorage, highlightSequenceRef, besideHighlight>>

InitHighlight ==
    /\ InitReportView
    /\ pc = "init"
    /\ args = <<>>
    /\ ret = NoValue

StoredIds == { localStorage[i].id : i \in 1..Len(localStorage) }

NextHighlight ==
    \/ syncHighlightMenuFromSelection
    \/ \E c \in 1..Len(HIGHLIGHT_COLORS), writeOk \in BOOLEAN :
           addHighlight(HIGHLIGHT_COLORS[c], writeOk)
    \/ \E id \in StoredIds, hasActiveSelection \in BOOLEAN, writeOk \in BOOLEAN :
           onClickMarker(id, hasActiveSelection, writeOk)
    \/ \E inMenu \in BOOLEAN, hasActiveSelection \in BOOLEAN :
           onClickElsewhere(inMenu, hasActiveSelection)

SpecHighlight == InitHighlight /\ [][NextHighlight]_vars

Spec == SpecHighlight

\* two half-open ranges share a character
RangesIntersect(a, b) == \E k \in a.start..(a.end - 1) : k \in b.start..(b.end - 1)

StoreWellFormed ==
    /\ \A i \in 1..Len(localStorage) : localStorage[i].end > localStorage[i].start
    /\ \A i, j \in 1..Len(localStorage) :
           i # j => ~RangesIntersect(localStorage[i], localStorage[j])

MenuHitsStore ==
    /\ highlightMenu # Null
    /\ \E i \in 1..Len(localStorage) : RangesIntersect(highlightMenu[1], localStorage[i])

\* C8: from an empty store, after any creates and deletes every stored range
\* has end > start and no two stored ranges overlap; a create whose range
\* overlaps a stored range leaves the store unchanged; a create whose range
\* overlaps none (it may touch one) and whose write succeeds appends the range.
C8_StoreNeverOverlaps ==
    /\ []StoreWellFormed
    /\ [][ \A c \in 1..Len(HIGHLIGHT_COLORS), writeOk \in BOOLEAN :
             (addHighlight(HIGHLIGHT_COLORS[c], writeOk) /\ MenuHitsStore)
                 => localStorage' = localStorage ]_vars
    /\ [][ \A c \in 1..Len(HIGHLIGHT_COLORS) :
             (addHighlight(HIGHLIGHT_COLORS[c], TRUE) /\ highlightMenu # Null /\ ~MenuHitsStore)
                 => /\ Len(localStorage') = Len(localStorage) + 1
                    /\ localStorage'[Len(localStorage')].start = highlightMenu[1].start
                    /\ localStorage'[Len(localStorage')].end = highlightMenu[1].end
                    /\ localStorage'[Len(localStorage')].color = HIGHLIGHT_COLORS[c] ]_vars

C8_Witness ==
    /\ Len(localStorage) = 2
    /\ localStorage[1].start = 10 /\ localStorage[1].end = 20
    /\ localStorage[2].start = 20 /\ localStorage[2].end = 30

\* the stored ranges but the one with this id, in their order
StoredBut(id) ==
    LET kept == { i \in 1..Len(localStorage) : localStorage[i].id # id }
    IN  [k \in 1..Cardinality(kept) |->
            localStorage[CHOOSE i \in kept : Cardinality({ j \in kept : j < i }) = k - 1]]

\* C20: a click on the marker of a stored range while no text is selected removes
\* the stored range with the id of the marker (one range) and leaves every other
\* stored range as it is, in its place; a click on a marker while a text is
\* selected removes nothing.  (The removal is a write to the storage: if the write
\* fails, which the handler ignores, nothing is removed.)
C20_MarkerClickRemovesOne ==
    [][ \A id \in StoredIds, hasActiveSelection \in BOOLEAN, writeOk \in BOOLEAN :
          onClickMarker(id, hasActiveSelection, writeOk) =>
              IF hasActiveSelection \/ ~writeOk
              THEN localStorage' = localStorage
              ELSE /\ Len(localStorage') = Len(localStorage) - 1
                   /\ \A i \in 1..Len(localStorage') : localStorage'[i].id # id
                   /\ localStorage' = StoredBut(id) ]_vars

\* The first of two stored ranges has been removed by a click on its marker: the
\* second one is stored as it was.
C20_Witness ==
    /\ pc = "onClickMarker"
    /\ ~args.hasActiveSelection /\ args.writeOk
    /\ args.id = mintHighlightId(10, 20, 1)
    /\ Len(localStorage) = 1
    /\ localStorage[1] = [id |-> mintHighlightId(20, 30, 2), start |-> 20, end |-> 30,
                          color |-> HIGHLIGHT_COLORS[2]]

----------------------------------------------------------------------------
(* Report envelope codec: lib/natal-request (part_002 42-77) and the       *)
(* schemas of lib/schemas/astro (part_001 284-307, 438-441).               *)
(*                                                                         *)
(* A string is the sequence of its code points, a binary string or buffer  *)
(* the sequence of its bytes.  A number is held in ten-thousandths (48.8534 *)
(* is 488534); the texts of the model hold no number with an exponent,     *)
(* more than four decimals or more than five integer digits, which         *)
(* EnvelopeNumbersPlain checks.                                            *)

\* the code points of the words the program and the schema spell out
Chars(word) ==
    CASE word = "payload" -> <<112, 97, 121, 108, 111, 97, 100>>
      [] word = "createdAt" -> <<99, 114, 101, 97, 116, 101, 100, 65, 116>>
      [] word = "name" -> <<110, 97, 109, 101>>
      [] word = "year" -> <<121, 101, 97, 114>>
      [] word = "month" -> <<109, 111, 110, 116, 104>>
      [] word = "day" -> <<100, 97, 121>>
      [] word = "hour" -> <<104, 111, 117, 114>>
      [] word = "minute" -> <<109, 105, 110, 117, 116, 101>>
      [] word = "city" -> <<99, 105, 116, 121>>
      [] word = "lat" -> <<108, 97, 116>>
      [] word = "lng" -> <<108, 110, 103>>
      [] word = "tz_str" -> <<116, 122, 95, 115, 116, 114>>
      [] word = "house_system" -> <<104, 111, 117, 115, 101, 95, 115, 121, 115, 116, 101, 109>>
      [] word = "zodiac_type" -> <<122, 111, 100, 105, 97, 99, 95, 116, 121, 112, 101>>
      [] word = "interpretation" -> <<105, 110, 116, 101, 114, 112, 114, 101, 116, 97, 116, 105, 111, 110>>
      [] word = "enable" -> <<101, 110, 97, 98, 108, 101>>
      [] word = "style" -> <<115, 116, 121, 108, 101>>
      [] word = "language" -> <<108, 97, 110, 103, 117, 97, 103, 101>>
      [] word = "include_features" -> <<105, 110, 99, 108, 117, 100, 101, 95, 102, 101, 97, 116, 117, 114, 101, 115>>
      [] word = "include_speed" -> <<105, 110, 99, 108, 117, 100, 101, 95, 115, 112, 101, 101, 100>>
      [] word = "include_dominants" -> <<105, 110, 99, 108, 117, 100, 101, 95, 100, 111, 109, 105, 110, 97, 110, 116, 115>>
      [] word = "placidus" -> <<112, 108, 97, 99, 105, 100, 117, 115>>
      [] word = "tropical" -> <<116, 114, 111, 112, 105, 99, 97, 108>>
      [] word = "improved" -> <<105, 109, 112, 114, 111, 118, 101, 100>>
      [] word = "en" -> <<101, 110>>
      [] word = "asc" -> <<97, 115, 99>>
      [] word = "mc" -> <<109, 99>>
      [] word = "chiron" -> <<99, 104, 105, 114, 111, 110>>
      [] word = "lilith" -> <<108, 105, 108, 105, 116, 104>>
      [] word = "true_node" -> <<116, 114, 117, 101, 95, 110, 111, 100, 101>>
      [] word = "mean_node" -> <<109, 101, 97, 110, 95, 110, 111, 100, 101>>
      [] word = "true" -> <<116, 114, 117, 101>>
      [] word = "false" -> <<102, 97, 108, 115, 101>>
      [] word = "null" -> <<110, 117, 108, 108>>
      [] word = "results" -> <<114, 101, 115, 117, 108, 116, 115>>
      [] word = "count" -> <<99, 111, 117, 110, 116>>
      [] word = "country_code" -> <<99, 111, 117, 110, 116, 114, 121, 95, 99, 111, 100, 101>>
      [] word = "country" -> <<99, 111, 117, 110, 116, 114, 121>>
      [] word = "timezone" -> <<116, 105, 109, 101, 122, 111, 110, 101>>
      [] word = "population" -> <<112, 111, 112, 117, 108, 97, 116, 105, 111, 110>>
      [] word = "subject" -> <<115, 117, 98, 106, 101, 99, 116>>
      [] word = "datetime" -> <<100, 97, 116, 101, 116, 105, 109, 101>>
      [] word = "location" -> <<108, 111, 99, 97, 116, 105, 111, 110>>
      [] word = "settings" -> <<115, 101, 116, 116, 105, 110, 103, 115>>
      [] word = "julian_day" -> <<106, 117, 108, 105, 97, 110, 95, 100, 97, 121>>
      [] word = "julian_day_tt" -> <<106, 117, 108, 105, 97, 110, 95, 100, 97, 121, 95, 116, 116>>
      [] word = "delta_t_days" -> <<100, 101, 108, 116, 97, 95, 116, 95, 100, 97, 121, 115>>
      [] word = "delta_t_seconds" -> <<100, 101, 108, 116, 97, 95, 116, 95, 115, 101, 99, 111, 110, 100, 115>>
      [] word = "planets" -> <<112, 108, 97, 110, 101, 116, 115>>
      [] word = "id" -> <<105, 100>>
      [] word = "sign" -> <<115, 105, 103, 110>>
      [] word = "sign_id" -> <<115, 105, 103, 110, 95, 105, 100>>
      [] word = "pos" -> <<112, 111, 115>>
      [] word = "abs_pos" -> <<97, 98, 115, 95, 112, 111, 115>>
      [] word = "house" -> <<104, 111, 117, 115, 101>>
      [] word = "retrograde" -> <<114, 101, 116, 114, 111, 103, 114, 97, 100, 101>>
      [] word = "speed" -> <<115, 112, 101, 101, 100>>
      [] word = "is_stationary" -> <<105, 115, 95, 115, 116, 97, 116, 105, 111, 110, 97, 114, 121>>
      [] word = "variant" -> <<118, 97, 114, 105, 97, 110, 116>>
      [] word = "houses" -> <<104, 111, 117, 115, 101, 115>>
      [] word = "angles" -> <<97, 110, 103, 108, 101, 115>>
      [] word = "ic" -> <<105, 99>>
      [] word = "dc" -> <<100, 99>>
      [] word = "vertex" -> <<118, 101, 114, 116, 101, 120>>
      [] word = "angles_details" -> <<97, 110, 103, 108, 101, 115, 95, 100, 101, 116, 97, 105, 108, 115>>
      [] word = "aspects" -> <<97, 115, 112, 101, 99, 116, 115>>
      [] word = "p1" -> <<112, 49>>
      [] word = "p2" -> <<112, 50>>
      [] word = "type" -> <<116, 121, 112, 101>>
      [] word = "orb" -> <<111, 114, 98>>
      [] word = "deg" -> <<100, 101, 103>>
      [] word = "is_major" -> <<105, 115, 95, 109, 97, 106, 111, 114>>
      [] word = "aspects_summary" -> <<97, 115, 112, 101, 99, 116, 115, 95, 115, 117, 109, 109, 97, 114, 121>>
      [] word = "total" -> <<116, 111, 116, 97, 108>>
      [] word = "major" -> <<109, 97, 106, 111, 114>>
      [] word = "minor" -> <<109, 105, 110, 111, 114>>
      [] word = "by_type" -> <<98, 121, 95, 116, 121, 112, 101>>
      [] word = "dominants" -> <<100, 111, 109, 105, 110, 97, 110, 116, 115>>
      [] word = "raw" -> <<114, 97, 119>>
      [] word = "svg" -> <<115, 118, 103>>
      [] word = "q" -> <<113>>
      [] word = "limit" -> <<108, 105, 109, 105, 116>>
      [] word = "UPSTREAM_" -> <<85, 80, 83, 84, 82, 69, 65, 77, 95>>
      [] word = "MISSING_API_KEY" -> <<77, 73, 83, 83, 73, 78, 71, 95, 65, 80, 73, 95, 75, 69, 89>>
      [] word = "UPSTREAM_TIMEOUT" -> <<85, 80, 83, 84, 82, 69, 65, 77, 95, 84, 73, 77, 69, 79, 85, 84>>
      [] word = "UPSTREAM_NETWORK_ERROR" -> <<85, 80, 83, 84, 82, 69, 65, 77, 95, 78, 69, 84, 87, 79, 82, 75, 95, 69, 82, 82, 79, 82>>
      [] word = "INVALID_UPSTREAM_RESPONSE" -> <<73, 78, 86, 65, 76, 73, 68, 95, 85, 80, 83, 84, 82, 69, 65, 77, 95, 82, 69, 83, 80, 79, 78, 83, 69>>
      [] word = "INVALID_CHART_SVG_RESPONSE" -> <<73, 78, 86, 65, 76, 73, 68, 95, 67, 72, 65, 82, 84, 95, 83, 86, 71, 95, 82, 69, 83, 80, 79, 78, 83, 69>>
      [] word = "INTERNAL_ERROR" -> <<73, 78, 84, 69, 82, 78, 65, 76, 95, 69, 82, 82, 79, 82>>
      [] word = "INVALID_PAYLOAD" -> <<73, 78, 86, 65, 76, 73, 68, 95, 80, 65, 89, 76, 79, 65, 68>>
      [] word = "INVALID_QUERY" -> <<73, 78, 86, 65, 76, 73, 68, 95, 81, 85, 69, 82, 89>>
      [] word = "<svg" -> <<60, 115, 118, 103>>
      [] word = "Unknown" -> <<85, 110, 107, 110, 111, 119, 110>>
      [] word = "data:aspect.sun.trine.moon" -> <<100, 97, 116, 97, 58, 97, 115, 112, 101, 99, 116, 46, 115, 117, 110, 46, 116, 114, 105, 110, 101, 46, 109, 111, 111, 110>>
      [] word = "data:" -> <<100, 97, 116, 97, 58>>
      [] word = "aspect" -> <<97, 115, 112, 101, 99, 116>>
      [] word = "aspect." -> <<97, 115, 112, 101, 99, 116, 46>>
      [] word = "planet." -> <<112, 108, 97, 110, 101, 116, 46>>
      [] word = "planet-" -> <<112, 108, 97, 110, 101, 116, 45>>
      [] word = "planet_" -> <<112, 108, 97, 110, 101, 116, 95>>
      [] word = "_planet" -> <<95, 112, 108, 97, 110, 101, 116>>
      [] word = "sign-" -> <<115, 105, 103, 110, 45>>
      [] word = "house-" -> <<104, 111, 117, 115, 101, 45>>
      [] word = "glyph" -> <<103, 108, 121, 112, 104>>
      [] word = "symbol" -> <<115, 121, 109, 98, 111, 108>>
      [] word = "label" -> <<108, 97, 98, 101, 108>>
      [] word = "marker" -> <<109, 97, 114, 107, 101, 114>>
      [] word = "point" -> <<112, 111, 105, 110, 116>>
      [] word = "north_node" -> <<110, 111, 114, 116, 104, 95, 110, 111, 100, 101>>
      [] word = "south_node" -> <<115, 111, 117, 116, 104, 95, 110, 111, 100, 101>>
      [] word = "mercury" -> <<109, 101, 114, 99, 117, 114, 121>>
      [] word = "jupiter" -> <<106, 117, 112, 105, 116, 101, 114>>
      [] word = "saturn" -> <<115, 97, 116, 117, 114, 110>>
      [] word = "uranus" -> <<117, 114, 97, 110, 117, 115>>
      [] word = "neptune" -> <<110, 101, 112, 116, 117, 110, 101>>
      [] word = "pluto" -> <<112, 108, 117, 116, 111>>
      [] word = "venus" -> <<118, 101, 110, 117, 115>>
      [] word = "mars" -> <<109, 97, 114, 115>>
      [] word = "moon" -> <<109, 111, 111, 110>>
      [] word = "sun" -> <<115, 117, 110>>
      [] word = "ascendant" -> <<97, 115, 99, 101, 110, 100, 97, 110, 116>>
      [] word = "midheaven" -> <<109, 105, 100, 104, 101, 97, 118, 101, 110>>
      [] word = "fortune" -> <<102, 111, 114, 116, 117, 110, 101>>
      [] word = "none" -> <<110, 111, 110, 101>>
      [] word = "__none__" -> <<95, 95, 110, 111, 110, 101, 95, 95>>
      [] word = "0.04" -> <<48, 46, 48, 52>>
      [] word = "1" -> <<49>>
      [] word = "#000000" -> <<35, 48, 48, 48, 48, 48, 48>>
      [] word = " translate(" -> <<32, 116, 114, 97, 110, 115, 108, 97, 116, 101, 40>>
      [] word = " " -> <<32>>
      [] word = ") scale(1.3) translate(" -> <<41, 32, 115, 99, 97, 108, 101, 40, 49, 46, 51, 41, 32, 116, 114, 97, 110, 115, 108, 97, 116, 101, 40>>
      [] word = ")" -> <<41>>
      [] word = "#1a1a1a" -> <<35, 49, 97, 49, 97, 49, 97>>
      [] word = "#c00000" -> <<35, 99, 48, 48, 48, 48, 48>>
      [] word = "#0047ab" -> <<35, 48, 48, 52, 55, 97, 98>>
      [] word = "#2e7d32" -> <<35, 50, 101, 55, 100, 51, 50>>
      [] word = "aspect.sun.trine.moon" -> <<97, 115, 112, 101, 99, 116, 46, 115, 117, 110, 46, 116, 114, 105, 110, 101, 46, 109, 111, 111, 110>>
      [] word = "aspect.Moon.square.true_node" -> <<97, 115, 112, 101, 99, 116, 46, 77, 111, 111, 110, 46, 115, 113, 117, 97, 114, 101, 46, 116, 114, 117, 101, 95, 110, 111, 100, 101>>
      [] word = "aspect.sun.opposition.MC" -> <<97, 115, 112, 101, 99, 116, 46, 115, 117, 110, 46, 111, 112, 112, 111, 115, 105, 116, 105, 111, 110, 46, 77, 67>>
      [] word = "house.1" -> <<104, 111, 117, 115, 101, 46, 49>>
      [] word = "rotate(10)" -> <<114, 111, 116, 97, 116, 101, 40, 49, 48, 41>>
      [] word = "0.8" -> <<48, 46, 56>>
      [] word = "0.5" -> <<48, 46, 53>>
      [] word = "#111111" -> <<35, 49, 49, 49, 49, 49, 49>>
      [] word = "#222222" -> <<35, 50, 50, 50, 50, 50, 50>>
      [] word = "None" -> <<78, 111, 110, 101>>
      [] word = "Moon" -> <<77, 111, 111, 110>>
      [] word = "planet.sun" -> <<112, 108, 97, 110, 101, 116, 46, 115, 117, 110>>
      [] word = "planet-mc" -> <<112, 108, 97, 110, 101, 116, 45, 109, 99>>
      [] word = "north_node-glyph" -> <<110, 111, 114, 116, 104, 95, 110, 111, 100, 101, 45, 103, 108, 121, 112, 104>>
      [] word = "sign-aries" -> <<115, 105, 103, 110, 45, 97, 114, 105, 101, 115>>
      [] word = "|" -> <<124>>
      [] word = "2" -> <<50>>
      [] word = "10" -> <<49, 48>>
      [] word = "20" -> <<50, 48>>
      [] word = "30" -> <<51, 48>>
      [] word = "40" -> <<52, 48>>
      [] word = "50" -> <<53, 48>>
      [] word = "sections" -> <<115, 101, 99, 116, 105, 111, 110, 115>>
      [] word = "Ascendant" -> <<65, 115, 99, 101, 110, 100, 97, 110, 116>>
      [] word = "MC" -> <<77, 67>>
      [] word = "Midheaven" -> <<77, 105, 100, 104, 101, 97, 118, 101, 110>>
      [] word = "Mean Node" -> <<77, 101, 97, 110, 32, 78, 111, 100, 101>>
      [] word = "True_Node" -> <<84, 114, 117, 101, 95, 78, 111, 100, 101>>
      [] word = "Earth" -> <<69, 97, 114, 116, 104>>
      [] word = "earth" -> <<101, 97, 114, 116, 104>>
      [] word = "_glyph" -> <<95, 103, 108, 121, 112, 104>>
      [] word = "_symbol" -> <<95, 115, 121, 109, 98, 111, 108>>
      [] word = "_label" -> <<95, 108, 97, 98, 101, 108>>
      [] word = "_point" -> <<95, 112, 111, 105, 110, 116>>
      [] word = "-marker" -> <<45, 109, 97, 114, 107, 101, 114>>
      [] word = "planet_venus" -> <<112, 108, 97, 110, 101, 116, 95, 118, 101, 110, 117, 115>>
      [] word = "natal-wheel" -> <<110, 97, 116, 97, 108, 45, 119, 104, 101, 101, 108>>
      [] word = "house-1" -> <<104, 111, 117, 115, 101, 45, 49>>
      [] word = "planet_moon" -> <<112, 108, 97, 110, 101, 116, 95, 109, 111, 111, 110>>
      [] word = "unknown" -> <<117, 110, 107, 110, 111, 119, 110>>
      [] word = "aries" -> <<97, 114, 105, 101, 115>>
      [] word = "north" -> <<110, 111, 114, 116, 104>>
      [] word = "node" -> <<110, 111, 100, 101>>
      [] word = "Sun" -> <<83, 117, 110>>
      [] word = "ASC" -> <<65, 83, 67>>
      [] word = "North Node" -> <<78, 111, 114, 116, 104, 32, 78, 111, 100, 101>>
      [] word = "north node" -> <<110, 111, 114, 116, 104, 32, 110, 111, 100, 101>>
      [] word = "Trine" -> <<84, 114, 105, 110, 101>>
      [] word = "trine" -> <<116, 114, 105, 110, 101>>
      [] word = "Square" -> <<83, 113, 117, 97, 114, 101>>
      [] word = "square" -> <<115, 113, 117, 97, 114, 101>>
      [] word = "planet" -> <<112, 108, 97, 110, 101, 116>>
      [] word = "." -> <<46>>
      [] word = "_" -> <<95>>
      [] word = "aspect.moon.trine.sun" -> <<97, 115, 112, 101, 99, 116, 46, 109, 111, 111, 110, 46, 116, 114, 105, 110, 101, 46, 115, 117, 110>>
      [] word = "aspect.ascendant.trine.sun" -> <<97, 115, 112, 101, 99, 116, 46, 97, 115, 99, 101, 110, 100, 97, 110, 116, 46, 116, 114, 105, 110, 101, 46, 115, 117, 110>>
      [] word = "aspect.sun.trine.north_node" -> <<97, 115, 112, 101, 99, 116, 46, 115, 117, 110, 46, 116, 114, 105, 110, 101, 46, 110, 111, 114, 116, 104, 95, 110, 111, 100, 101>>
      [] word = "aspect.sun.trine.north node" -> <<97, 115, 112, 101, 99, 116, 46, 115, 117, 110, 46, 116, 114, 105, 110, 101, 46, 110, 111, 114, 116, 104, 32, 110, 111, 100, 101>>
      [] word = "Aspect.Moon.Trine.Sun.extra" -> <<65, 115, 112, 101, 99, 116, 46, 77, 111, 111, 110, 46, 84, 114, 105, 110, 101, 46, 83, 117, 110, 46, 101, 120, 116, 114, 97>>
      [] word = "aspect.sun.square.asc" -> <<97, 115, 112, 101, 99, 116, 46, 115, 117, 110, 46, 115, 113, 117, 97, 114, 101, 46, 97, 115, 99>>
      [] word = "undefined" -> <<117, 110, 100, 101, 102, 105, 110, 101, 100>>
      [] word = "report-highlights:v2:" -> <<114, 101, 112, 111, 114, 116, 45, 104, 105, 103, 104, 108, 105, 103, 104, 116, 115, 58, 118, 50, 58>>
      [] word = "start" -> <<115, 116, 97, 114, 116>>
      [] word = "end" -> <<101, 110, 100>>
      [] word = "color" -> <<99, 111, 108, 111, 114>>
      [] word = "title" -> <<116, 105, 116, 108, 101>>
      [] word = "body" -> <<98, 111, 100, 121>>
      [] word = "category" -> <<99, 97, 116, 101, 103, 111, 114, 121>>
      [] word = "key" -> <<107, 101, 121>>
      [] word = "planets" -> <<112, 108, 97, 110, 101, 116, 115>>
      [] word = "aspects" -> <<97, 115, 112, 101, 99, 116, 115>>

\* the concatenation of the sequences parts[lo], ..., parts[hi]
RECURSIVE Flatten(_, _, _)
Flatten(parts, lo, hi) ==
    IF lo > hi THEN <<>>
    ELSE IF lo = hi THEN parts[lo]
    ELSE LET mid == (lo + hi) \div 2
         IN  Flatten(parts, lo, mid) \o Flatten(parts, mid + 1, hi)

Concat(parts) == Flatten(parts, 1, Len(parts))

\* the positions of seq that satisfy Keep, in order
Positions(n, Keep(_)) == SelectSeq([i \in 1..n |-> i], Keep)

IsHexDigit(c) == c \in 48..57 \/ c \in 65..70 \/ c \in 97..102

HexValue(c) == IF c \in 48..57 THEN c - 48 ELSE IF c \in 65..70 THEN c - 55 ELSE c - 87

\* an upper-case hexadecimal digit
HexDigitUpper(v) == IF v < 10 THEN 48 + v ELSE 55 + v

\* UTF-8: the bytes of one code point
Utf8Bytes(cp) ==
    IF cp < 128 THEN <<cp>>
    ELSE IF cp < 2048 THEN <<192 + (cp \div 64), 128 + (cp % 64)>>
    ELSE IF cp < 65536
    THEN <<224 + (cp \div 4096), 128 + ((cp \div 64) % 64), 128 + (cp % 64)>>
    ELSE <<240 + (cp \div 262144), 128 + ((cp \div 4096) % 64),
           128 + ((cp \div 64) % 64), 128 + (cp % 64)>>

\* Buffer.from(input, "utf8"), and unescape(encodeURIComponent(input))
Utf8Encode(str) == Concat([i \in 1..Len(str) |-> Utf8Bytes(str[i])])

IsContinuation(b) == b \in 128..191

\* the length of the sequence a lead byte announces, 0 for a byte that leads none
LeadLength(b) ==
    IF b < 128 THEN 1
    ELSE IF b \in 194..223 THEN 2
    ELSE IF b \in 224..239 THEN 3
    ELSE IF b \in 240..244 THEN 4
    ELSE 0

\* the code point of the sequence that starts at bytes[i], or -1 when the
\* bytes there are no well-formed UTF-8 sequence
CodePointAt(bytes, i) ==
    LET b == bytes[i]
        n == LeadLength(b)
        tail(k) == bytes[i + k] - 128
    IN  IF n = 0 \/ i + n - 1 > Len(bytes) THEN -1
        ELSE IF \E k \in 1..(n - 1) : ~IsContinuation(bytes[i + k]) THEN -1
        ELSE IF n = 1 THEN b
        ELSE IF n = 2 THEN (b - 192) * 64 + tail(1)
        ELSE IF n = 3
        THEN LET cp == (b - 224) * 4096 + tail(1) * 64 + tail(2)
             IN  IF cp < 2048 \/ cp \in 55296..57343 THEN -1 ELSE cp
        ELSE LET cp == (b - 240) * 262144 + tail(1) * 4096 + tail(2) * 64 + tail(3)
             IN  IF cp < 65536 \/ cp > 1114111 THEN -1 ELSE cp

\* bytes[i] is a continuation byte of a well-formed sequence that starts before it
InsideSequence(bytes, i) ==
    \E d \in 1..3 :
        /\ i - d >= 1
        /\ LeadLength(bytes[i - d]) > d
        /\ CodePointAt(bytes, i - d) # -1

\* the decoding of a byte sequence: ok is FALSE when some byte belongs to no
\* well-formed sequence, and v then holds U+FFFD for every such byte
Utf8Decode(bytes) ==
    LET starts == Positions(Len(bytes), LAMBDA i : ~InsideSequence(bytes, i))
    IN  [ok |-> \A k \in 1..Len(starts) : CodePointAt(bytes, starts[k]) # -1,
         v |-> [k \in 1..Len(starts) |->
                    IF CodePointAt(bytes, starts[k]) = -1 THEN 65533
                    ELSE CodePointAt(bytes, starts[k])]]

\* the character of a base64 digit 0..63
Base64Char(v) ==
    IF v < 26 THEN 65 + v
    ELSE IF v < 52 THEN 97 + (v - 26)
    ELSE IF v < 62 THEN 48 + (v - 52)
    ELSE IF v = 62 THEN 43
    ELSE 47

\* the digit of a base64 character, -1 for any other character
Base64Value(c) ==
    IF c \in 65..90 THEN c - 65
    ELSE IF c \in 97..122 THEN c - 97 + 26
    ELSE IF c \in 48..57 THEN c - 48 + 52
    ELSE IF c = 43 THEN 62
    ELSE IF c = 47 THEN 63
    ELSE -1

\* btoa(binary), and Buffer.toString("base64"): padded standard base64
Base64Encode(bytes) ==
    LET n == Len(bytes)
        byte(i) == IF i <= n THEN bytes[i] ELSE 0
        digit(k) ==
            LET g == 3 * ((k - 1) \div 4)
                j == (k - 1) % 4
            IN  IF j = 0 THEN byte(g + 1) \div 4
                ELSE IF j = 1 THEN (byte(g + 1) % 4) * 16 + (byte(g + 2) \div 16)
                ELSE IF j = 2 THEN (byte(g + 2) % 16) * 4 + (byte(g + 3) \div 64)
                ELSE byte(g + 3) % 64
        present(k) == 3 * ((k - 1) \div 4) + ((k - 1) % 4) <= n
    IN  [k \in 1..(4 * ((n + 2) \div 3)) |->
            IF (k - 1) % 4 = 0 \/ present(k) THEN Base64Char(digit(k)) ELSE 61]

\* the bytes of a run of base64 digits; a rest of fewer than 8 bits is dropped
Base64Bytes(digits) ==
    LET n == Len(digits)
        d(k) == IF k <= n THEN digits[k] ELSE 0
    IN  [i \in 1..((n * 6) \div 8) |->
            LET g == 4 * ((i - 1) \div 3)
                j == (i - 1) % 3
            IN  IF j = 0 THEN d(g + 1) * 4 + (d(g + 2) \div 16)
                ELSE IF j = 1 THEN (d(g + 2) % 16) * 16 + (d(g + 3) \div 4)
                ELSE (d(g + 3) % 4) * 64 + d(g + 4)]

IsAsciiWhitespace(c) == c \in {9, 10, 12, 13, 32}

\* window.atob: the forgiving base64 decode; ok is FALSE where it throws
atob(input) ==
    LET data == SelectSeq(input, LAMBDA c : ~IsAsciiWhitespace(c))
        n == Len(data)
        stripped ==
            IF n % 4 = 0 /\ n >= 2 /\ data[n] = 61 /\ data[n - 1] = 61
            THEN SubSeq(data, 1, n - 2)
            ELSE IF n % 4 = 0 /\ n >= 1 /\ data[n] = 61
            THEN SubSeq(data, 1, n - 1)
            ELSE data
    IN  IF Len(stripped) % 4 = 1 \/ \E k \in 1..Len(stripped) : Base64Value(stripped[k]) = -1
        THEN [ok |-> FALSE, v |-> <<>>]
        ELSE [ok |-> TRUE,
              v |-> Base64Bytes([k \in 1..Len(stripped) |-> Base64Value(stripped[k])])]

\* the digit of a character of either base64 alphabet, -1 for any other
Base64ValueLenient(c) == IF c = 45 THEN 62 ELSE IF c = 95 THEN 63 ELSE Base64Value(c)

\* Buffer.from(input, "base64"): the text ends at the first "=", characters of
\* neither alphabet are skipped; it never throws
BufferFromBase64(input) ==
    LET pads == { k \in 1..Len(input) : input[k] = 61 }
        stop == IF pads = {} THEN Len(input) + 1
                ELSE CHOOSE k \in pads : \A j \in pads : k <= j
        text == SubSeq(input, 1, stop - 1)
        kept == SelectSeq(text, LAMBDA c : Base64ValueLenient(c) # -1)
    IN  Base64Bytes([k \in 1..Len(kept) |-> Base64ValueLenient(kept[k])])

\* the characters encodeURIComponent leaves alone: A-Z a-z 0-9 - _ . ! ~ * ' ( )
IsUriUnreserved(c) ==
    \/ c \in 65..90 \/ c \in 97..122 \/ c \in 48..57
    \/ c \in {45, 95, 46, 33, 126, 42, 39, 40, 41}

PercentEscape(b) == <<37, HexDigitUpper(b \div 16), HexDigitUpper(b % 16)>>

encodeURIComponent(str) ==
    Concat([i \in 1..Len(str) |->
               IF IsUriUnreserved(str[i]) THEN <<str[i]>>
               ELSE Concat([k \in 1..Len(Utf8Bytes(str[i])) |->
                               PercentEscape(Utf8Bytes(str[i])[k])])])

\* decodeURIComponent: ok is FALSE where it throws URIError (a "%" without two
\* hexadecimal digits, or escapes that are no well-formed UTF-8)
decodeURIComponent(str) ==
    LET n == Len(str)
        escapeAt(i) == str[i] = 37
        inEscape(i) == (i >= 2 /\ escapeAt(i - 1)) \/ (i >= 3 /\ escapeAt(i - 2))
        malformed ==
            \E i \in 1..n :
                /\ escapeAt(i)
                /\ (i + 2 > n \/ ~IsHexDigit(str[i + 1]) \/ ~IsHexDigit(str[i + 2]))
        starts == Positions(n, LAMBDA i : ~inEscape(i))
        \* each unit is a literal character (as its UTF-8 bytes) or an escaped byte
        units == [k \in 1..Len(starts) |->
                     IF escapeAt(starts[k])
                     THEN <<HexValue(str[starts[k] + 1]) * 16 + HexValue(str[starts[k] + 2])>>
                     ELSE Utf8Bytes(str[starts[k]])]
    IN  IF malformed THEN [ok |-> FALSE, v |-> <<>>]
        ELSE Utf8Decode(Concat(units))

----------------------------------------------------------------------------
(* JSON.  A value is [t, v]: t is "string" (v its code points), "number"   *)
(* (v in ten-thousandths), "boolean", "null", "array" (v the sequence of   *)
(* its items) or "object" (v the sequence of its members [key, value]).    *)

JString(str) == [t |-> "string", v |-> str]

JNumber(n) == [t |-> "number", v |-> n]

JBoolean(b) == [t |-> "boolean", v |-> b]

JArray(items) == [t |-> "array", v |-> items]

JObject(members) == [t |-> "object", v |-> members]

Member(word, value) == [key |-> Chars(word), value |-> value]

\* the four decimals of a number, without the trailing zeros
FractionDigits(f) ==
    LET all == <<48 + (f \div 1000), 48 + ((f \div 100) % 10), 48 + ((f \div 10) % 10),
                 48 + (f % 10)>>
        last == CHOOSE k \in 0..4 :
                    /\ \A j \in (k + 1)..4 : all[j] = 48
                    /\ k = 0 \/ all[k] # 48
    IN  SubSeq(all, 1, last)

\* Number.prototype.toString of a number held in ten-thousandths
NumberText(n) ==
    LET whole == DecimalDigits(Abs(n) \div 10000)
        frac == FractionDigits(Abs(n) % 10000)
    IN  (IF n < 0 THEN <<45>> ELSE <<>>) \o whole
        \o (IF frac = <<>> THEN <<>> ELSE <<46>> \o frac)

HexDigitLower(v) == IF v < 10 THEN 48 + v ELSE 87 + v

\* QuoteJSONString, one character
QuoteChar(c) ==
    IF c = 34 THEN <<92, 34>>
    ELSE IF c = 92 THEN <<92, 92>>
    ELSE IF c = 8 THEN <<92, 98>>
    ELSE IF c = 9 THEN <<92, 116>>
    ELSE IF c = 10 THEN <<92, 110>>
    ELSE IF c = 12 THEN <<92, 102>>
    ELSE IF c = 13 THEN <<92, 114>>
    ELSE IF c < 32 THEN <<92, 117, 48, 48, HexDigitLower(c \div 16), HexDigitLower(c % 16)>>
    ELSE <<c>>

QuoteString(str) == <<34>> \o Concat([i \in 1..Len(str) |-> QuoteChar(str[i])]) \o <<34>>

\* parts[1], sep, parts[2], sep, ...
Join(parts, sep) ==
    Concat([i \in 1..Len(parts) |-> IF i = 1 THEN parts[i] ELSE sep \o parts[i]])

\* JSON.stringify of a value
RECURSIVE JsonStringify(_)
JsonStringify(value) ==
    CASE value.t = "string" -> QuoteString(value.v)
      [] value.t = "number" -> NumberText(value.v)
      [] value.t = "boolean" -> IF value.v THEN Chars("true") ELSE Chars("false")
      [] value.t = "null" -> Chars("null")
      [] value.t = "array" ->
             <<91>> \o Join([i \in 1..Len(value.v) |-> JsonStringify(value.v[i])], <<44>>)
             \o <<93>>
      [] value.t = "object" ->
             <<123>>
             \o Join([i \in 1..Len(value.v) |->
                         QuoteString(value.v[i].key) \o <<58>>
                         \o JsonStringify(value.v[i].value)], <<44>>)
             \o <<125>>

IsJsonWhitespace(c) == c \in {9, 10, 13, 32}

IsDigit(c) == c \in 48..57

\* the first position from i on that holds no white space, Len + 1 if none
RECURSIVE SkipWhitespace(_, _)
SkipWhitespace(text, i) ==
    IF i <= Len(text) /\ IsJsonWhitespace(text[i]) THEN SkipWhitespace(text, i + 1) ELSE i

\* the first position from i on that holds no digit, Len + 1 if none
RECURSIVE SkipDigits(_, _)
SkipDigits(text, i) ==
    IF i <= Len(text) /\ IsDigit(text[i]) THEN SkipDigits(text, i + 1) ELSE i

\* the position of the quote that closes a string whose content starts at k, 0 if none
RECURSIVE StringClose(_, _)
StringClose(text, k) ==
    IF k > Len(text) THEN 0
    ELSE IF text[k] = 34 THEN k
    ELSE IF text[k] = 92 THEN StringClose(text, k + 2)
    ELSE StringClose(text, k + 1)

ParseFailure == [ok |-> FALSE, v |-> [t |-> "null", v |-> 0], next |-> 0, plain |-> TRUE]

\* the number of backslashes that immediately precede position j, from position a on
BackslashRun(text, a, j) ==
    LET others == { k \in a..(j - 1) : text[k] # 92 }
    IN  IF others = {} THEN j - a
        ELSE (j - 1) - (CHOOSE k \in others : \A m \in others : m <= k)

\* a string literal whose opening quote is at i
ParseString(text, i) ==
    LET close == StringClose(text, i + 1)
    IN  IF close = 0 THEN ParseFailure
        ELSE
        LET a == i + 1
            b == close - 1
            escapeAt(k) == text[k] = 92 /\ BackslashRun(text, a, k) % 2 = 0
            unicodeAt(k) == escapeAt(k) /\ k + 1 <= b /\ text[k + 1] = 117
            consumed(k) ==
                \/ k - 1 >= a /\ escapeAt(k - 1)
                \/ \E d \in 2..5 : k - d >= a /\ unicodeAt(k - d)
            wellFormed(k) ==
                IF ~escapeAt(k) THEN text[k] >= 32
                ELSE /\ k + 1 <= b
                     /\ \/ text[k + 1] \in {34, 92, 47, 98, 102, 110, 114, 116}
                        \/ /\ text[k + 1] = 117
                           /\ k + 5 <= b
                           /\ \A d \in 2..5 : IsHexDigit(text[k + d])
            unescaped(k) ==
                IF ~escapeAt(k) THEN text[k]
                ELSE CASE text[k + 1] = 98 -> 8
                       [] text[k + 1] = 102 -> 12
                       [] text[k + 1] = 110 -> 10
                       [] text[k + 1] = 114 -> 13
                       [] text[k + 1] = 116 -> 9
                       [] text[k + 1] = 117 ->
                              HexValue(text[k + 2]) * 4096 + HexValue(text[k + 3]) * 256
                              + HexValue(text[k + 4]) * 16 + HexValue(text[k + 5])
                       [] OTHER -> text[k + 1]
            starts == SelectSeq([k \in 1..(b - a + 1) |-> a + k - 1],
                                LAMBDA k : ~consumed(k))
        IN  IF \E k \in a..b : ~consumed(k) /\ ~wellFormed(k) THEN ParseFailure
            ELSE [ok |-> TRUE,
                  v |-> JString([k \in 1..Len(starts) |-> unescaped(starts[k])]),
                  next |-> close + 1,
                  plain |-> \A k \in 1..Len(starts) :
                                unescaped(starts[k]) \notin 55296..57343]

RECURSIVE DigitsValue(_, _, _)
DigitsValue(text, a, b) ==
    IF a > b THEN 0 ELSE DigitsValue(text, a, b - 1) * 10 + (text[b] - 48)

\* a number literal that starts at i: -? (0 | [1-9][0-9]*) (. [0-9]+)? ([eE] [+-]? [0-9]+)?
ParseNumber(text, i) ==
    LET n == Len(text)
        negative == text[i] = 45
        p == IF negative THEN i + 1 ELSE i
        q1 == SkipDigits(text, p)
        hasFraction == q1 <= n /\ text[q1] = 46
        q2 == IF hasFraction THEN SkipDigits(text, q1 + 1) ELSE q1
        hasExponent == q2 <= n /\ text[q2] \in {69, 101}
        r == IF hasExponent /\ q2 + 1 <= n /\ text[q2 + 1] \in {43, 45} THEN q2 + 2 ELSE q2 + 1
        q3 == IF hasExponent THEN SkipDigits(text, r) ELSE q2
        plain == ~hasExponent /\ q1 - p <= 5 /\ q2 - q1 <= 5
        fraction == IF hasFraction
                    THEN DigitsValue(text, q1 + 1, q2 - 1)
                         * (CASE q2 - q1 = 2 -> 1000 [] q2 - q1 = 3 -> 100
                              [] q2 - q1 = 4 -> 10 [] OTHER -> 1)
                    ELSE 0
        magnitude == DigitsValue(text, p, q1 - 1) * 10000 + fraction
    IN  IF \/ q1 = p
           \/ (text[p] = 48 /\ q1 - p > 1)
           \/ (hasFraction /\ q2 = q1 + 1)
           \/ (hasExponent /\ q3 = r)
        THEN ParseFailure
        ELSE [ok |-> TRUE,
              v |-> JNumber(IF ~plain THEN 0 ELSE IF negative THEN -magnitude ELSE magnitude),
              next |-> q3, plain |-> plain]

\* text holds the word from position i on
HasWordAt(text, i, word) ==
    /\ i + Len(Chars(word)) - 1 <= Len(text)
    /\ SubSeq(text, i, i + Len(Chars(word)) - 1) = Chars(word)

RECURSIVE ParseValue(_, _)
RECURSIVE ParseElements(_, _, _, _)
RECURSIVE ParseMembers(_, _, _, _)

\* the value that starts at position i
ParseValue(text, i) ==
    IF i > Len(text) THEN ParseFailure
    ELSE CASE text[i] = 123 ->
                  LET j == SkipWhitespace(text, i + 1)
                  IN  IF j <= Len(text) /\ text[j] = 125
                      THEN [ok |-> TRUE, v |-> JObject(<<>>), next |-> j + 1, plain |-> TRUE]
                      ELSE ParseMembers(text, j, <<>>, TRUE)
           [] text[i] = 91 ->
                  LET j == SkipWhitespace(text, i + 1)
                  IN  IF j <= Len(text) /\ text[j] = 93
                      THEN [ok |-> TRUE, v |-> JArray(<<>>), next |-> j + 1, plain |-> TRUE]
                      ELSE ParseElements(text, j, <<>>, TRUE)
           [] text[i] = 34 -> ParseString(text, i)
           [] text[i] = 45 \/ IsDigit(text[i]) -> ParseNumber(text, i)
           [] HasWordAt(text, i, "true") ->
                  [ok |-> TRUE, v |-> JBoolean(TRUE), next |-> i + 4, plain |-> TRUE]
           [] HasWordAt(text, i, "false") ->
                  [ok |-> TRUE, v |-> JBoolean(FALSE), next |-> i + 5, plain |-> TRUE]
           [] HasWordAt(text, i, "null") ->
                  [ok |-> TRUE, v |-> [t |-> "null", v |-> 0], next |-> i + 4, plain |-> TRUE]
           [] OTHER -> ParseFailure

\* the items of an array from position i on, after those of items
ParseElements(text, i, items, plain) ==
    LET item == ParseValue(text, i)
        j == SkipWhitespace(text, item.next)
    IN  IF ~item.ok \/ j > Len(text) THEN ParseFailure
        ELSE IF text[j] = 93
        THEN [ok |-> TRUE, v |-> JArray(Append(items, item.v)), next |-> j + 1,
              plain |-> plain /\ item.plain]
        ELSE IF text[j] = 44
        THEN ParseElements(text, SkipWhitespace(text, j + 1), Append(items, item.v),
                           plain /\ item.plain)
        ELSE ParseFailure

\* the members of an object from position i on, after those of members
ParseMembers(text, i, members, plain) ==
    IF i > Len(text) \/ text[i] # 34 THEN ParseFailure
    ELSE LET key == ParseString(text, i)
             colon == SkipWhitespace(text, key.next)
         IN  IF ~key.ok \/ colon > Len(text) \/ text[colon] # 58 THEN ParseFailure
             ELSE LET value == ParseValue(text, SkipWhitespace(text, colon + 1))
                      j == SkipWhitespace(text, value.next)
                      member == [key |-> key.v.v, value |-> value.v]
                  IN  IF ~value.ok \/ j > Len(text) THEN ParseFailure
                      ELSE IF text[j] = 125
                      THEN [ok |-> TRUE, v |-> JObject(Append(members, member)),
                            next |-> j + 1, plain |-> plain /\ key.plain /\ value.plain]
                      ELSE IF text[j] = 44
                      THEN ParseMembers(text, SkipWhitespace(text, j + 1),
                                        Append(members, member),
                                        plain /\ key.plain /\ value.plain)
                      ELSE ParseFailure

\* JSON.parse: ok is FALSE where it throws SyntaxError
JsonParse(text) ==
    LET whole(value) ==
            IF value.ok /\ SkipWhitespace(text, value.next) = Len(text) + 1
            THEN value
            ELSE ParseFailure
    IN  whole(ParseValue(text, SkipWhitespace(text, 1)))

----------------------------------------------------------------------------
(* The schemas of the report envelope.  A schema takes the parsed JSON     *)
(* value, or <<>> for a missing key, and gives [success, data].            *)

Rejected == [success |-> FALSE, data |-> <<>>]

Accepted(data) == [success |-> TRUE, data |-> data]

\* the value of the key in an object, <<>> when it is missing; of a repeated key
\* JSON.parse keeps the last
Lookup(object, word) ==
    LET last(hits) == IF hits = <<>> THEN <<>> ELSE <<hits[Len(hits)].value>>
    IN  last(SelectSeq(object.v, LAMBDA member : member.key = Chars(word)))

\* what String.prototype.trim strips
IsTrimWhitespace(c) ==
    c \in {9, 10, 11, 12, 13, 32, 160, 5760, 8232, 8233, 8239, 8287, 12288, 65279}
          \cup (8192..8202)

StringTrim_keep(str) == str

\* String.prototype.trim
StringTrim(str) ==
    LET kept == { i \in 1..Len(str) : ~IsTrimWhitespace(str[i]) }
    IN  IF kept = {} THEN <<>>
        ELSE SubSeq(str, CHOOSE i \in kept : \A j \in kept : i <= j,
                         CHOOSE i \in kept : \A j \in kept : j <= i)

\* z.string().trim().min(least)
zTrimmedString(opt, least) ==
    IF Len(opt) = 0 \/ opt[1].t # "string" THEN Rejected
    ELSE LET trimmed == StringTrim(opt[1].v)
         IN  IF Len(trimmed) < least THEN Rejected ELSE Accepted(trimmed)

\* .max(most) after a string schema
zMax(result, most) ==
    IF result.success /\ Len(result.data) > most THEN Rejected ELSE result

\* z.number(), with .int() when whole
zNumber(opt, whole) ==
    IF Len(opt) = 0 \/ opt[1].t # "number" THEN Rejected
    ELSE IF whole /\ opt[1].v % 10000 # 0 THEN Rejected
    ELSE Accepted(opt[1].v)

\* .min(lo).max(hi) after a number schema
zRange(result, lo, hi) ==
    IF result.success /\ (result.data < lo * 10000 \/ result.data > hi * 10000)
    THEN Rejected ELSE result

\* .positive() after a number schema
zPositive(result) == IF result.success /\ result.data <= 0 THEN Rejected ELSE result

\* z.literal of a string
zLiteralString(opt, word) ==
    IF Len(opt) = 1 /\ opt[1].t = "string" /\ opt[1].v = Chars(word)
    THEN Accepted(opt[1].v) ELSE Rejected

\* z.literal(true)
zLiteralTrue(opt) ==
    IF Len(opt) = 1 /\ opt[1].t = "boolean" /\ opt[1].v
    THEN Accepted(TRUE) ELSE Rejected

\* schema.optional(): a missing key is accepted as undefined
zOptional(opt, result) == IF Len(opt) = 0 THEN Accepted(Undefined) ELSE result

FeatureWords == {"asc", "mc", "chiron", "lilith", "true_node", "mean_node"}

\* z.array(z.enum([...])).min(2)
zFeatures(opt) ==
    IF Len(opt) = 0 \/ opt[1].t # "array" THEN Rejected
    ELSE LET items == opt[1].v
         IN  IF \E i \in 1..Len(items) :
                    \/ items[i].t # "string"
                    \/ \A word \in FeatureWords : items[i].v # Chars(word)
             THEN Rejected
             ELSE IF Len(items) < 2 THEN Rejected
             ELSE Accepted([i \in 1..Len(items) |-> items[i].v])

\* the schema of the interpretation object
zInterpretation(opt) ==
    IF Len(opt) = 0 \/ opt[1].t # "object" THEN Rejected
    ELSE LET enable == zLiteralTrue(Lookup(opt[1], "enable"))
             style == zLiteralString(Lookup(opt[1], "style"), "improved")
             language == zOptional(Lookup(opt[1], "language"),
                                   zLiteralString(Lookup(opt[1], "language"), "en"))
         IN  IF enable.success /\ style.success /\ language.success
             THEN Accepted([enable |-> enable.data, style |-> style.data,
                            language |-> IF language.data = Undefined THEN Undefined
                                         ELSE Some(language.data)])
             ELSE Rejected

natalRequestSchema(opt) ==
    IF Len(opt) = 0 \/ opt[1].t # "object" THEN Rejected
    ELSE LET get(word) == Lookup(opt[1], word)
             name == zOptional(get("name"), zMax(zTrimmedString(get("name"), 0), 120))
             year == zRange(zNumber(get("year"), TRUE), 1800, 2100)
             month == zRange(zNumber(get("month"), TRUE), 1, 12)
             day == zRange(zNumber(get("day"), TRUE), 1, 31)
             hour == zRange(zNumber(get("hour"), TRUE), 0, 23)
             minute == zRange(zNumber(get("minute"), TRUE), 0, 59)
             city == zTrimmedString(get("city"), 1)
             lat == zRange(zNumber(get("lat"), FALSE), -90, 90)
             lng == zRange(zNumber(get("lng"), FALSE), -180, 180)
             tz_str == zTrimmedString(get("tz_str"), 1)
             house_system == zLiteralString(get("house_system"), "placidus")
             zodiac_type == zLiteralString(get("zodiac_type"), "tropical")
             interpretation == zInterpretation(get("interpretation"))
             include_features == zFeatures(get("include_features"))
             include_speed == zLiteralTrue(get("include_speed"))
             include_dominants == zLiteralTrue(get("include_dominants"))
         IN  IF /\ name.success /\ year.success /\ month.success /\ day.success
                /\ hour.success /\ minute.success /\ city.success /\ lat.success
                /\ lng.success /\ tz_str.success /\ house_system.success
                /\ zodiac_type.success /\ interpretation.success
                /\ include_features.success /\ include_speed.success
                /\ include_dominants.success
             THEN Accepted([name |-> IF get("name") = <<>> THEN Undefined
                                     ELSE Some(name.data),
                            year |-> year.data, month |-> month.data, day |-> day.data,
                            hour |-> hour.data, minute |-> minute.data,
                            city |-> city.data, lat |-> lat.data, lng |-> lng.data,
                            tz_str |-> tz_str.data, house_system |-> house_system.data,
                            zodiac_type |-> zodiac_type.data,
                            interpretation |-> interpretation.data,
                            include_features |-> include_features.data,
                            include_speed |-> include_speed.data,
                            include_dominants |-> include_dominants.data])
             ELSE Rejected

\* reportEnvelopeSchema.safeParse
reportEnvelopeSchema(value) ==
    IF value.t # "object" THEN Rejected
    ELSE LET createdAt == zPositive(zNumber(Lookup(value, "createdAt"), TRUE))
             payload == natalRequestSchema(Lookup(value, "payload"))
         IN  IF createdAt.success /\ payload.success
             THEN Accepted([createdAt |-> createdAt.data, payload |-> payload.data])
             ELSE Rejected

----------------------------------------------------------------------------
(* Encoding and decoding the report envelope.  An envelope is a record     *)
(* [createdAt, payload]; its numbers are in ten-thousandths, its strings   *)
(* are sequences of code points, an optional field is Undefined or Some.   *)

\* the members JSON.stringify writes for an object: a key whose value is undefined
\* is left out
Defined(members) == SelectSeq(members, LAMBDA member : member.value # Undefined)

\* the JSON value of an envelope, its keys in the order the form builds them
EnvelopeValue(envelope) ==
    LET payload == envelope.payload
        optional(opt) == IF opt = Undefined THEN Undefined ELSE JString(opt[1])
        interpretation ==
            JObject(Defined(<<Member("enable", JBoolean(payload.interpretation.enable)),
                              Member("style", JString(payload.interpretation.style)),
                              Member("language",
                                     optional(payload.interpretation.language))>>))
        features == JArray([i \in 1..Len(payload.include_features) |->
                               JString(payload.include_features[i])])
    IN  JObject(<<
          Member("payload", JObject(Defined(<<
              Member("name", optional(payload.name)),
              Member("year", JNumber(payload.year)),
              Member("month", JNumber(payload.month)),
              Member("day", JNumber(payload.day)),
              Member("hour", JNumber(payload.hour)),
              Member("minute", JNumber(payload.minute)),
              Member("city", JString(payload.city)),
              Member("lat", JNumber(payload.lat)),
              Member("lng", JNumber(payload.lng)),
              Member("tz_str", JString(payload.tz_str)),
              Member("house_system", JString(payload.house_system)),
              Member("zodiac_type", JString(payload.zodiac_type)),
              Member("interpretation", interpretation),
              Member("include_features", features),
              Member("include_speed", JBoolean(payload.include_speed)),
              Member("include_dominants", JBoolean(payload.include_dominants))>>))),
          Member("createdAt", JNumber(envelope.createdAt))>>)

\* window.btoa(unescape(encodeURIComponent(input))) where there is a window,
\* Buffer.from(input, "utf8").toString("base64") elsewhere
toBase64(input, hasWindow) == Base64Encode(Utf8Encode(input))

\* decodeURIComponent(escape(window.atob(input))) where there is a window,
\* Buffer.from(input, "base64").toString("utf8") elsewhere; ok is FALSE where it throws
fromBase64(input, hasWindow) ==
    IF hasWindow
    THEN LET binary == atob(input)
         IN  IF binary.ok THEN Utf8Decode(binary.v) ELSE [ok |-> FALSE, v |-> <<>>]
    ELSE [ok |-> TRUE, v |-> Utf8Decode(BufferFromBase64(input)).v]

encodeReportEnvelope(envelope, hasWindow) ==
    encodeURIComponent(toBase64(JsonStringify(EnvelopeValue(envelope)), hasWindow))

\* what the body of the try block does: threw says that one of its calls threw
decodeReportEnvelope_try(serialized, hasWindow) ==
    LET unescaped == decodeURIComponent(serialized)
        decoded == fromBase64(unescaped.v, hasWindow)
        parsed == JsonParse(decoded.v)
        validation == reportEnvelopeSchema(parsed.v)
    IN  IF ~unescaped.ok \/ ~decoded.ok \/ ~parsed.ok THEN [threw |-> TRUE, value |-> Null]
        ELSE IF ~validation.success THEN [threw |-> FALSE, value |-> Null]
        ELSE [threw |-> FALSE, value |-> Some(validation.data)]

decodeReportEnvelope_noCatch(serialized, hasWindow) ==
    decodeReportEnvelope_try(serialized, hasWindow)

\* the catch turns every throw of the body into null
decodeReportEnvelope(serialized, hasWindow) ==
    [threw |-> FALSE, value |-> decodeReportEnvelope_try(serialized, hasWindow).value]

----------------------------------------------------------------------------
(* The journey of a report link: the form encodes an envelope into the     *)
(* data parameter of the report URL, the link may be altered on its way,   *)
(* and the report page decodes what it receives.                           *)

MaxCut == 6

NameSamples == {Undefined, Some(<<90, 111, 233>>), Some(<<32, 65, 108, 32>>)}

CitySamples == {<<80, 97, 114, 105, 115>>, <<80, 97, 114, 105, 115, 10>>}

YearSamples == {1990, 1700}

CreatedAtSamples == {1712, 0}

FeatureSamples == {<<Chars("asc"), Chars("mc")>>, <<Chars("chiron")>>}

\* the envelopes the form can hand to encodeReportEnvelope, and envelopes of the same
\* type that the schema rules out
EnvelopeSamples ==
    { [createdAt |-> createdAt * 10000,
       payload |-> [name |-> name, year |-> year * 10000, month |-> 6 * 10000,
                    day |-> 15 * 10000, hour |-> 14 * 10000, minute |-> 30 * 10000,
                    city |-> city, lat |-> 488534, lng |-> -23488,
                    tz_str |-> <<85, 84, 67>>,
                    house_system |-> Chars("placidus"),
                    zodiac_type |-> Chars("tropical"),
                    interpretation |-> [enable |-> TRUE, style |-> Chars("improved"),
                                        language |-> Undefined],
                    include_features |-> features,
                    include_speed |-> TRUE, include_dominants |-> TRUE]] :
        createdAt \in CreatedAtSamples, name \in NameSamples, year \in YearSamples,
        city \in CitySamples, features \in FeatureSamples }

\* strings that no encoder produced: "%", "%E9", "e30%3D", "bnVsbA%3D%3D", "!!!!", "",
\* "W10", "MTcxMg"
ForeignTokens ==
    {<<37>>,
     <<37, 69, 57>>,
     <<101, 51, 48, 37, 51, 68>>,
     <<98, 110, 86, 115, 98, 65, 37, 51, 68, 37, 51, 68>>,
     <<33, 33, 33, 33>>,
     <<>>,
     <<87, 49, 48>>,
     <<77, 84, 99, 120, 77, 103>>}

\* the characters written over a character of the link: "%" and "A"
ReplacementChars == {37, 65}

\* the places of the link that are altered: its start, its middle, its end
TamperPositions(serialized) == {1, Len(serialized) \div 2, Len(serialized)}

InitEnvelope ==
    /\ pc = "envelope"
    /\ args \in [envelope : EnvelopeSamples, hasWindow : BOOLEAN,
                 serialized : {<<>>}, tampered : {FALSE}]
    /\ ret = Null
    /\ InitReportView

\* the form builds the link
CallEncodeReportEnvelope ==
    /\ pc = "envelope"
    /\ \E hasWindow \in BOOLEAN :
           args' = [args EXCEPT
                      !.serialized = encodeReportEnvelope(args.envelope, hasWindow)]
    /\ pc' = "encoded"
    /\ UNCHANGED ret
    /\ PureFrame

Tampered(serialized) ==
    /\ args' = [args EXCEPT !.serialized = serialized, !.tampered = TRUE]
    /\ pc' = "tampered"
    /\ UNCHANGED ret
    /\ PureFrame

\* the link loses its last characters
TruncateSerialized ==
    /\ pc = "encoded"
    /\ \E cut \in 1..MaxCut :
        /\ cut <= Len(args.serialized)
        /\ Tampered(SubSeq(args.serialized, 1, Len(args.serialized) - cut))

\* one character of the link is written over
ReplaceCharacter ==
    /\ pc = "encoded"
    /\ \E i \in TamperPositions(args.serialized), c \in ReplacementChars :
        /\ args.serialized[i] # c
        /\ Tampered([args.serialized EXCEPT ![i] = c])

\* a space slips into the link
InsertSpace ==
    /\ pc = "encoded"
    /\ \E i \in TamperPositions(args.serialized) :
        Tampered(SubSeq(args.serialized, 1, i) \o <<32>>
                 \o SubSeq(args.serialized, i + 1, Len(args.serialized)))

\* the data parameter holds something else altogether
ReplaceSerialized ==
    /\ pc = "encoded"
    /\ \E token \in ForeignTokens : Tampered(token)

\* the report page decodes the data parameter
CallDecodeReportEnvelope ==
    /\ pc \in {"encoded", "tampered"}
    /\ ret' = decodeReportEnvelope(args.serialized, args.hasWindow)
    /\ pc' = "decoded"
    /\ UNCHANGED args
    /\ PureFrame

NextEnvelope ==
    \/ CallEncodeReportEnvelope
    \/ TruncateSerialized
    \/ ReplaceCharacter
    \/ InsertSpace
    \/ ReplaceSerialized
    \/ CallDecodeReportEnvelope

SpecEnvelope == InitEnvelope /\ [][NextEnvelope]_vars

\* every number that JSON.parse meets in the model is one that ten-thousandths hold,
\* and no string holds half of a surrogate pair
EnvelopeTextPlain ==
    pc = "decoded" =>
        LET unescaped == decodeURIComponent(args.serialized)
            decoded == fromBase64(unescaped.v, args.hasWindow)
        IN  unescaped.ok /\ decoded.ok => ParseValue(decoded.v, SkipWhitespace(decoded.v, 1)).plain

\* the string has white space at neither end
HasNoOuterWhitespace(str) ==
    str = <<>> \/ (~IsTrimWhitespace(str[1]) /\ ~IsTrimWhitespace(str[Len(str)]))

\* short is long without the white space at its ends
IsTrimOf(short, long) ==
    /\ HasNoOuterWhitespace(short)
    /\ \E a \in 1..(Len(long) + 1) :
           /\ \A i \in 1..Len(long) :
                  (i < a \/ i >= a + Len(short)) => IsTrimWhitespace(long[i])
           /\ \A i \in 1..Len(short) : a + i - 1 <= Len(long) /\ long[a + i - 1] = short[i]

IsWholeIn(n, lo, hi) == n % 10000 = 0 /\ lo * 10000 <= n /\ n <= hi * 10000

\* what the schemas of the envelope ask of an envelope, said of the envelope itself
MeetsEnvelopeSchema(envelope) ==
    LET payload == envelope.payload
    IN  /\ envelope.createdAt % 10000 = 0 /\ envelope.createdAt > 0
        /\ payload.name # Undefined =>
               \E short \in {SubSeq(payload.name[1], a, b) :
                               a \in 1..(Len(payload.name[1]) + 1), b \in 0..Len(payload.name[1])} :
                   IsTrimOf(short, payload.name[1]) /\ Len(short) <= 120
        /\ IsWholeIn(payload.year, 1800, 2100)
        /\ IsWholeIn(payload.month, 1, 12)
        /\ IsWholeIn(payload.day, 1, 31)
        /\ IsWholeIn(payload.hour, 0, 23)
        /\ IsWholeIn(payload.minute, 0, 59)
        /\ \E i \in 1..Len(payload.city) : ~IsTrimWhitespace(payload.city[i])
        /\ -90 * 10000 <= payload.lat /\ payload.lat <= 90 * 10000
        /\ -180 * 10000 <= payload.lng /\ payload.lng <= 180 * 10000
        /\ \E i \in 1..Len(payload.tz_str) : ~IsTrimWhitespace(payload.tz_str[i])
        /\ payload.house_system = Chars("placidus")
        /\ payload.zodiac_type = Chars("tropical")
        /\ payload.interpretation.enable
        /\ payload.interpretation.style = Chars("improved")
        /\ payload.interpretation.language \in {Undefined, Some(Chars("en"))}
        /\ Len(payload.include_features) >= 2
        /\ \A i \in 1..Len(payload.include_features) :
               \E word \in FeatureWords : payload.include_features[i] = Chars(word)
        /\ payload.include_speed
        /\ payload.include_dominants

\* name, city and tz_str have white space at neither end
IsTrimmedEnvelope(envelope) ==
    /\ envelope.payload.name # Undefined => HasNoOuterWhitespace(envelope.payload.name[1])
    /\ HasNoOuterWhitespace(envelope.payload.city)
    /\ HasNoOuterWhitespace(envelope.payload.tz_str)

\* result is envelope with name, city and tz_str trimmed
IsTrimmedCopy(result, envelope) ==
    /\ (result.payload.name = Undefined) = (envelope.payload.name = Undefined)
    /\ envelope.payload.name # Undefined =>
           IsTrimOf(result.payload.name[1], envelope.payload.name[1])
    /\ IsTrimOf(result.payload.city, envelope.payload.city)
    /\ IsTrimOf(result.payload.tz_str, envelope.payload.tz_str)
    /\ [result EXCEPT !.payload.name = envelope.payload.name,
                      !.payload.city = envelope.payload.city,
                      !.payload.tz_str = envelope.payload.tz_str] = envelope

\* the link reached the report page as the form built it
Untouched == pc = "decoded" /\ ~args.tampered

\* C9 as stated: decoding the encoding of any envelope the encoder accepts gives back
\* an envelope equal to it, field for field and character for character.
C9_RoundTripExact == Untouched => ret.value = Some(args.envelope)

\* C9: decoding the encoding of an envelope gives back exactly that envelope when the
\* envelope meets the envelope schema and its name, city and tz_str have no white
\* space at their ends; when it meets the schema but has such white space the result
\* is the envelope with those strings trimmed; when it does not meet the schema the
\* result is null.
C9_RoundTripOfSchemaValid ==
    Untouched =>
        /\ MeetsEnvelopeSchema(args.envelope) /\ IsTrimmedEnvelope(args.envelope) =>
               ret.value = Some(args.envelope)
        /\ MeetsEnvelopeSchema(args.envelope) /\ ~IsTrimmedEnvelope(args.envelope) =>
               /\ ret.value # Null
               /\ IsTrimmedCopy(ret.value[1], args.envelope)
               /\ ret.value[1] # args.envelope
        /\ ~MeetsEnvelopeSchema(args.envelope) => ret.value = Null

\* a schema-valid envelope with a two-byte character in its name came back unchanged
C9_Witness ==
    /\ Untouched
    /\ MeetsEnvelopeSchema(args.envelope)
    /\ args.envelope.payload.name = Some(<<90, 111, 233>>)
    /\ ret.value = Some(args.envelope)

\* the encoder can have written the string: it is the escaped, padded base64 of bytes
IsEncoderOutput(serialized) ==
    LET unescaped == decodeURIComponent(serialized)
        binary == atob(unescaped.v)
    IN  /\ unescaped.ok
        /\ binary.ok
        /\ serialized = encodeURIComponent(Base64Encode(binary.v))

\* C10 as stated: decodeReportEnvelope does not throw, and it returns null for every
\* string that is not the encoding of a schema-valid envelope.
C10_NullUnlessEncoding ==
    pc = "decoded" /\ ~IsEncoderOutput(args.serialized) =>
        ~ret.threw /\ ret.value = Null

\* one of the steps before validation fails on the string
StepFails(serialized, hasWindow) ==
    LET unescaped == decodeURIComponent(serialized)
        binary == atob(unescaped.v)
        text == fromBase64(unescaped.v, hasWindow)
    IN  \/ ~unescaped.ok
        \/ hasWindow /\ ~binary.ok
        \/ hasWindow /\ ~Utf8Decode(binary.v).ok
        \/ ~JsonParse(text.v).ok

\* C10: decodeReportEnvelope does not throw; it returns null when the string is badly
\* percent-encoded, when it is not base64 or not UTF-8 to the browser, or when its text
\* is not JSON; and whatever it returns other than null meets the envelope schema, with
\* name, city and tz_str trimmed.
C10_NeverThrows ==
    pc = "decoded" =>
        /\ ~ret.threw
        /\ StepFails(args.serialized, args.hasWindow) => ret.value = Null
        /\ ret.value # Null =>
               MeetsEnvelopeSchema(ret.value[1]) /\ IsTrimmedEnvelope(ret.value[1])

\* a link cut inside a percent escape was decoded to null
C10_Witness ==
    /\ pc = "decoded"
    /\ args.tampered
    /\ ~decodeURIComponent(args.serialized).ok
    /\ ret = [threw |-> FALSE, value |-> Null]

----------------------------------------------------------------------------
(* The report page: ReportPageClient of components/report (the client of   *)
(* report-skeleton.tsx 24-214).  page holds its state and memoised values; *)
(* a run is one call of the async function run() of its effect.            *)

MAX_REPORT_AGE_MS == 1000 * 60 * 60 * 24

\* the bytes of a query value: "+" is a space, a well-formed escape is its byte, any
\* other character (a "%" that starts no escape too) stands for itself
FormDecodeBytes(str) ==
    LET n == Len(str)
        escapeAt(i) ==
            /\ i >= 1 /\ i + 2 <= n /\ str[i] = 37
            /\ IsHexDigit(str[i + 1]) /\ IsHexDigit(str[i + 2])
        starts == Positions(n, LAMBDA i : ~escapeAt(i - 1) /\ ~escapeAt(i - 2))
    IN  Concat([k \in 1..Len(starts) |->
                   IF escapeAt(starts[k])
                   THEN <<HexValue(str[starts[k] + 1]) * 16 + HexValue(str[starts[k] + 2])>>
                   ELSE Utf8Bytes(IF str[starts[k]] = 43 THEN 32 ELSE str[starts[k]])])

\* searchParams.get("data") of a URL whose data parameter is written as raw (Null: the
\* URL has no data parameter)
searchParamsGet(raw) ==
    IF raw = Null THEN Null ELSE Some(Utf8Decode(FormDecodeBytes(raw[1])).v)

\* useMemo of the envelope: null without a data parameter or with an empty one
envelopeOf(encoded, hasWindow) ==
    IF encoded = Null \/ encoded[1] = <<>> THEN Null
    ELSE decodeReportEnvelope(encoded[1], hasWindow).value

\* useMemo of isExpired, computed when the envelope is; clock is Date.now()
isExpiredOf(envelope, clock) ==
    IF envelope = Null THEN FALSE
    ELSE clock - (envelope[1].createdAt \div 10000) > MAX_REPORT_AGE_MS

\* what the page renders: the invalid-link notice, the expired-link notice, or the
\* sections of the report page
View ==
    IF page.encoded = Null \/ page.encoded[1] = <<>> \/ page.envelope = Null
    THEN [notice |-> "Invalid report link", skeleton |-> FALSE, error |-> Null,
          report |-> Null, chart |-> Null]
    ELSE IF page.isExpired
    THEN [notice |-> "Report link expired", skeleton |-> FALSE, error |-> Null,
          report |-> Null, chart |-> Null]
    ELSE [notice |-> "",
          skeleton |-> page.loading,
          error |-> page.error,
          report |-> IF ~page.loading /\ page.error = Null THEN page.data ELSE Null,
          chart |-> IF ~page.loading /\ page.error = Null /\ page.data # Null
                    THEN page.chartSvg ELSE Null]

\* the cleanup of the effect: the run it started, if any, is cancelled
Cleanup == IF page.run = 0 THEN runs ELSE [runs EXCEPT ![page.run].cancelled = TRUE]

MaxRuns == 2

\* a call of run() that awaits its two requests; natal and chart are natalResponse and
\* chartResponse once it has them
NoResponse == [rejected |-> FALSE, ok |-> FALSE, body |-> "none"]

StartedRun == [pc |-> "fetch", cancelled |-> FALSE, natal |-> NoResponse, chart |-> NoResponse]

\* a call of run() that has returned
Returned(run) ==
    [pc |-> "done", cancelled |-> run.cancelled, natal |-> NoResponse, chart |-> NoResponse]

\* The effect of the page, on the state next that the render left: nothing without an
\* envelope or with an expired one, else run() starts and issues both requests at once.
Effect(next, cleaned) ==
    IF next.envelope = Null \/ next.isExpired
    THEN /\ page' = [next EXCEPT !.run = 0]
         /\ runs' = cleaned
         /\ UNCHANGED requests
    ELSE /\ Len(runs) < MaxRuns
         /\ page' = [next EXCEPT !.run = Len(runs) + 1, !.loading = TRUE,
                                 !.error = Null, !.chartSvg = Null]
         /\ runs' = Append(cleaned, StartedRun)
         /\ requests' = requests \o
                << [url |-> "/api/natal/calculate", at |-> now, run |-> Len(runs) + 1,
                    createdAt |-> next.envelope[1].createdAt \div 10000],
                   [url |-> "/api/natal/chart-svg", at |-> now, run |-> Len(runs) + 1,
                    createdAt |-> next.envelope[1].createdAt \div 10000] >>

\* the envelope of the link that the form wrote
LinkEnvelopes ==
    { e \in EnvelopeSamples :
        /\ e.payload.name = Undefined
        /\ Len(e.payload.city) = 5
        /\ Len(e.payload.include_features) = 2
        /\ reportEnvelopeSchema(EnvelopeValue(e)).success }

\* the data parameter of the URL: absent, empty, "%", or what the form wrote
LinkSamples ==
    {Null, Some(<<>>), Some(<<37>>)}
        \cup { Some(encodeReportEnvelope(e, TRUE)) : e \in LinkEnvelopes }

\* what the page reads from each link: the value of the data parameter and the
\* envelope decoded from it, with and without a window
LinkTable ==
    [raw \in LinkSamples, hasWindow \in BOOLEAN |->
        LET encoded == searchParamsGet(raw)
        IN  [encoded |-> encoded, envelope |-> envelopeOf(encoded, hasWindow)]]

\* the first render of the page for a URL, and its effect
Mount(raw, hasWindow) ==
    /\ page = Null
    /\ runs = <<>>
    /\ \E link \in {LinkTable[raw, hasWindow]} :
           Effect([encoded |-> link.encoded, envelope |-> link.envelope,
                   isExpired |-> isExpiredOf(link.envelope, now),
                   loading |-> FALSE, error |-> Null, data |-> Null, chartSvg |-> Null,
                   refreshKey |-> 0, run |-> 0, mounted |-> TRUE], runs)
    /\ UNCHANGED <<now, nonPageVars>>

\* the data parameter of the URL changes while the page is mounted
Navigate(raw, hasWindow) ==
    /\ page # Null /\ page.mounted
    /\ \E link \in {LinkTable[raw, hasWindow]} :
           /\ link.encoded # page.encoded
           /\ Effect([page EXCEPT !.encoded = link.encoded, !.envelope = link.envelope,
                                  !.isExpired = isExpiredOf(link.envelope, now)], Cleanup)
    /\ UNCHANGED <<now, nonPageVars>>

\* the Retry button of the error section
Retry ==
    /\ page # Null /\ page.mounted
    /\ View.notice = "" /\ View.error # Null
    /\ Effect([page EXCEPT !.refreshKey = page.refreshKey + 1], Cleanup)
    /\ UNCHANGED <<now, nonPageVars>>

Unmount ==
    /\ page # Null /\ page.mounted
    /\ page' = [page EXCEPT !.mounted = FALSE, !.run = 0]
    /\ runs' = Cleanup
    /\ UNCHANGED <<now, requests, nonPageVars>>

\* What a request comes to: the fetch rejects, or it resolves with a response.  The
\* response of the calculation has a 2xx status or another one, and its body is a
\* report, JSON that carries error.message, other JSON, or not JSON.
FetchRejected == [rejected |-> TRUE, ok |-> FALSE, body |-> "none"]

NatalOutcomes ==
    {FetchRejected} \cup
    { [rejected |-> FALSE, ok |-> ok, body |-> body] :
        ok \in BOOLEAN, body \in {"report", "errorMessage", "otherJson", "notJson"} }

\* The response of the chart image has a 2xx status or another one; its body is a
\* stream that is read by chartResponse.json() only.
ChartOutcomes ==
    {FetchRejected} \cup { [rejected |-> FALSE, ok |-> ok, body |-> "stream"] : ok \in BOOLEAN }

\* what the stream of the chart response holds: JSON with an svg string that holds
\* "<svg", other JSON, or not JSON
ChartBodies == {"svg", "otherJson", "notJson"}

\* the state setters of a run after an await, behind their "if (!cancelled)"
Commit_unguarded(r, next) == next

Commit(r, next) == IF runs[r].cancelled THEN page ELSE next

\* catch and finally of run()
Throw(r, message) ==
    /\ page' = Commit(r, [page EXCEPT !.error = Some(message), !.loading = FALSE])
    /\ runs' = [runs EXCEPT ![r] = Returned(runs[r])]

\* await Promise.all([fetch(calculate), fetch(chart-svg)])
SettleFetches(r, natal, chart) ==
    /\ runs[r].pc = "fetch"
    /\ IF natal.rejected \/ chart.rejected
       THEN Throw(r, "Failed to fetch")
       ELSE /\ runs' = [runs EXCEPT ![r].pc = "natalJson", ![r].natal = natal,
                                    ![r].chart = chart]
            /\ UNCHANGED page
    /\ UNCHANGED <<now, requests, nonPageVars>>

\* await natalResponse.json(), the status and shape checks, setData; the run returns
\* here when the status of the chart response is not 2xx
NatalJson(r) ==
    /\ runs[r].pc = "natalJson"
    /\ LET natal == runs[r].natal
       IN  IF natal.body = "notJson"
           THEN Throw(r, "Unexpected token < in JSON at position 0")
           ELSE IF ~natal.ok
           THEN Throw(r, IF natal.body = "errorMessage" THEN "message of the error body"
                         ELSE "Could not generate report.")
           ELSE IF natal.body # "report"
           THEN Throw(r, "Report response shape is invalid.")
           ELSE IF runs[r].chart.ok
           THEN /\ page' = Commit(r, [page EXCEPT !.data = Some(r)])
                /\ runs' = [runs EXCEPT ![r].pc = "chartJson"]
           ELSE /\ page' = Commit(r, [page EXCEPT !.data = Some(r), !.loading = FALSE])
                /\ runs' = [runs EXCEPT ![r] = Returned(runs[r])]
    /\ UNCHANGED <<now, requests, nonPageVars>>

\* await chartResponse.json(), setChartSvg, finally
ChartJson(r, body) ==
    /\ runs[r].pc = "chartJson"
    /\ IF body = "notJson"
       THEN Throw(r, "Unexpected token < in JSON at position 0")
       ELSE /\ page' = Commit(r, IF body = "svg"
                                 THEN [page EXCEPT !.chartSvg = Some(r), !.loading = FALSE]
                                 ELSE [page EXCEPT !.loading = FALSE])
            /\ runs' = [runs EXCEPT ![r] = Returned(runs[r])]
    /\ UNCHANGED <<now, requests, nonPageVars>>

\* the instants at which the model looks at the clock: an envelope created at 1712 is
\* one millisecond short of 24 hours old, exactly 24 hours old, one millisecond older
ClockSamples ==
    {1712 + MAX_REPORT_AGE_MS - 1, 1712 + MAX_REPORT_AGE_MS, 1712 + MAX_REPORT_AGE_MS + 1}

\* time passes
Tick ==
    /\ \E t \in ClockSamples : t > now /\ now' = t
    /\ UNCHANGED <<page, runs, requests, nonPageVars>>

InitReportPage ==
    /\ pc = "page"
    /\ args = <<>>
    /\ ret = Null
    /\ InitHighlightStore
    /\ InitCityAutocomplete
    /\ InitChartState
    /\ page = Null
    /\ runs = <<>>
    /\ requests = <<>>
    /\ now \in ClockSamples

NextReportPage ==
    \/ \E raw \in LinkSamples, hasWindow \in BOOLEAN : Mount(raw, hasWindow)
    \/ \E raw \in LinkSamples, hasWindow \in BOOLEAN : Navigate(raw, hasWindow)
    \/ Retry
    \/ Unmount
    \/ Tick
    \/ \E r \in 1..Len(runs), natal \in NatalOutcomes, chart \in ChartOutcomes :
           SettleFetches(r, natal, chart)
    \/ \E r \in 1..Len(runs) : NatalJson(r)
    \/ \E r \in 1..Len(runs), body \in ChartBodies : ChartJson(r, body)

SpecReportPage == InitReportPage /\ [][NextReportPage]_vars

\* the age of the envelope of a request when the request was issued
AgeAtIssue(request) == request.at - request.createdAt

\* C11: a mounted page without a decodable envelope shows the invalid-link state, a
\* page with an expired envelope shows the expired-link state, neither has started a
\* run, and every request that was issued was issued for an envelope that was at
\* most 24 hours old at that instant.
C11_RequestsOnlyForFreshEnvelope ==
    /\ page # Null /\ page.envelope = Null =>
           View.notice = "Invalid report link" /\ page.run = 0
    /\ page # Null /\ page.isExpired =>
           View.notice = "Report link expired" /\ page.run = 0
    /\ \A i \in 1..Len(requests) : AgeAtIssue(requests[i]) <= MAX_REPORT_AGE_MS

\* the calculation request succeeded: a 2xx response whose body is a report
CalculationSucceeds(natal) == ~natal.rejected /\ natal.ok /\ natal.body = "report"

\* the page shows the report of run r, no chart, no error and no skeleton
ReportWithoutChart(r) ==
    /\ View.error = Null
    /\ View.report = Some(r)
    /\ View.chart = Null
    /\ ~View.skeleton

\* the page shows an error message and no report
ErrorWithoutReport == View.error # Null /\ View.report = Null

\* C12: a run that is not cancelled ends with an error message and no report when the
\* calculation request failed (rejected fetch, non-2xx status, body of another shape or
\* not JSON), and with the report, no chart and no error when the calculation succeeded
\* and the chart-image request failed (rejected fetch, non-2xx status, body not JSON).
C12_OnlyCalculationFailureIsAnError ==
    [][\A r \in 1..Len(runs) :
          ~runs[r].cancelled =>
              /\ \A natal \in NatalOutcomes, chart \in ChartOutcomes :
                     SettleFetches(r, natal, chart) /\ (natal.rejected \/ chart.rejected) =>
                         IF CalculationSucceeds(natal) THEN ReportWithoutChart(r)'
                         ELSE ErrorWithoutReport'
              /\ NatalJson(r) /\ runs'[r].pc = "done" =>
                     IF CalculationSucceeds(runs[r].natal) THEN ReportWithoutChart(r)'
                     ELSE ErrorWithoutReport'
              /\ ChartJson(r, "notJson") => ReportWithoutChart(r)'
      ]_vars

\* C14: a step of a run whose cleanup has executed leaves the state of the page as it
\* is, and a step of a run that changes the state of the page is a step of the run
\* that was started last.
C14_CancelledRunCommitsNothing ==
    [][\A r \in 1..Len(runs) :
          runs'[r].pc # runs[r].pc =>
              /\ runs[r].cancelled => page' = page
              /\ page' # page => r = Len(runs) /\ r = page.run
      ]_vars

\* the responses of the first run arrived after its cleanup, while the page waits for
\* the second run: the calculation and its report were read and no data was committed
C14_Witness ==
    /\ Len(runs) = 2
    /\ runs[1].cancelled
    /\ runs[1].pc = "chartJson"
    /\ page.mounted
    /\ page.run = 2
    /\ page.loading
    /\ page.data = Null

----------------------------------------------------------------------------
(* The city field: CityAutocomplete of components/form/city-autocomplete.  *)
(* cityField.timer is the pending setTimeout of the search effect (the     *)
(* query it closed over), a search is one call of the timer's callback.    *)

\* the places the geocoder knows: Paris FR, Parma IT, Pau FR
Gazetteer ==
    << [name |-> <<80, 97, 114, 105, 115>>, country_code |-> <<70, 82>>],
       [name |-> <<80, 97, 114, 109, 97>>, country_code |-> <<73, 84>>],
       [name |-> <<80, 97, 117>>, country_code |-> <<70, 82>>] >>

AsciiLower(c) == IF c \in 65..90 THEN c + 32 ELSE c

\* the results of the geocoder for q: the places whose name starts with q
GeoResults(q) ==
    SelectSeq(Gazetteer,
              LAMBDA place :
                  /\ Len(q) <= Len(place.name)
                  /\ \A i \in 1..Len(q) : AsciiLower(q[i]) = AsciiLower(place.name[i]))

\* `${city.name}, ${city.country_code}`
CityLabel(place) == place.name \o <<44, 32>> \o place.country_code

\* the search effect (city-autocomplete.tsx 32-80) on the state that the render left,
\* after the cleanup of the effect before it has cleared its timer
SearchEffect(state) ==
    IF state.skipNextSearchRef
    THEN [state EXCEPT !.skipNextSearchRef = FALSE, !.timer = Null]
    ELSE IF Len(StringTrim(state.query)) < 2
    THEN [state EXCEPT !.results = <<>>, !.open = FALSE, !.error = Null, !.timer = Null]
    ELSE [state EXCEPT !.timer = Some(state.query)]

\* onChange of the input
onChange(next) ==
    /\ next # cityField.query
    /\ cityField' = SearchEffect([cityField EXCEPT !.query = next,
                                                  !.open = Len(StringTrim(next)) >= 2,
                                                  !.selectedCity = Null])
    /\ UNCHANGED <<searches, nonCityVars>>

\* onClick of a result, then the effect on selectedCity and the search effect
onSelectCity(place) ==
    /\ cityField.open /\ ~cityField.loading /\ cityField.error = Null
    /\ \E i \in 1..Len(cityField.results) : cityField.results[i] = place
    /\ LET clicked == [cityField EXCEPT !.skipNextSearchRef = TRUE,
                                        !.selectedCity = Some(place),
                                        !.query = CityLabel(place),
                                        !.open = FALSE]
       IN  cityField' = IF clicked.query # cityField.query THEN SearchEffect(clicked)
                        ELSE clicked
    /\ UNCHANGED <<searches, nonCityVars>>

MaxSearches == 2

\* the timer fires after 300 ms: the callback runs up to its first await
timerFires ==
    /\ cityField.timer # Null
    /\ Len(searches) < MaxSearches
    /\ cityField' = [cityField EXCEPT !.loading = TRUE, !.error = Null, !.timer = Null]
    /\ searches' = Append(searches, [q |-> StringTrim(cityField.timer[1]), pc |-> "fetch"])
    /\ UNCHANGED nonCityVars

\* What a search request comes to: a 2xx response with results; a response with
\* another status or without results whose body carries error.message, or does not;
\* a rejected fetch or a body that is not JSON.
SearchOutcomes == {"results", "errorMessage", "noMessage", "rejected"}

\* the state setters of the callback after its awaits
Apply(i, next) == next

\* the callback of the timer goes on after await fetch and await response.json()
searchSettles(i, outcome) ==
    /\ searches[i].pc = "fetch"
    /\ cityField' =
           Apply(i, CASE outcome = "results" ->
                         [cityField EXCEPT !.results = GeoResults(searches[i].q),
                                           !.open = TRUE, !.loading = FALSE]
                      [] outcome = "errorMessage" ->
                         [cityField EXCEPT !.error = Some("message of the error body"),
                                           !.results = <<>>, !.open = TRUE,
                                           !.loading = FALSE]
                      [] outcome = "noMessage" ->
                         [cityField EXCEPT !.error = Some("Could not load cities."),
                                           !.results = <<>>, !.open = TRUE,
                                           !.loading = FALSE]
                      [] outcome = "rejected" ->
                         [cityField EXCEPT
                              !.error = Some("Network error while searching cities."),
                              !.results = <<>>, !.open = TRUE, !.loading = FALSE])
    /\ searches' = [searches EXCEPT ![i] = [q |-> searches[i].q, pc |-> outcome]]
    /\ UNCHANGED nonCityVars

\* what the user types: "", "p", " p ", "pa", "par", "pau", "pa "
QuerySamples ==
    { <<>>, <<112>>, <<32, 112, 32>>, <<112, 97>>, <<112, 97, 114>>, <<112, 97, 117>>,
      <<112, 97, 32>> }

InitCity ==
    /\ pc = "city"
    /\ args = <<>>
    /\ ret = Null
    /\ InitReportView

NextCity ==
    \/ \E next \in QuerySamples : onChange(next)
    \/ \E i \in 1..Len(Gazetteer) : onSelectCity(Gazetteer[i])
    \/ timerFires
    \/ \E i \in 1..Len(searches), outcome \in SearchOutcomes : searchSettles(i, outcome)

SpecCity == InitCity /\ [][NextCity]_vars

\* what the dropdown shows
Shown == <<cityField.results, cityField.error, cityField.open, cityField.loading>>

\* every search that started has settled and no timer is pending
AllSettled ==
    /\ cityField.timer = Null
    /\ \A i \in 1..Len(searches) : searches[i].pc # "fetch"

\* C13: the response of a search after which a later search has started changes
\* neither the results nor the error, open or loading state; and once every search
\* has settled, the results shown are those of the search that started last.
C13_SupersededSearchIsDropped ==
    /\ [][\A i \in 1..Len(searches) :
              searches[i].pc = "fetch" /\ searches'[i].pc # "fetch" /\ i < Len(searches) =>
                  Shown' = Shown
         ]_vars
    /\ [](AllSettled /\ searches # <<>> /\ searches[Len(searches)].pc = "results" /\
          StringTrim(cityField.query) = searches[Len(searches)].q =>
              cityField.results = GeoResults(searches[Len(searches)].q))

----------------------------------------------------------------------------
(* The schemas of the upstream responses (lib/schemas/astro).  A schema    *)
(* takes <<value>> (<<>> for a missing key) and gives Rejected or          *)
(* Accepted(data), data being the JSON value that zod returns.             *)

IsObject(opt) == Len(opt) = 1 /\ opt[1].t = "object"

\* z.string().min(least)
zString(opt, least) ==
    IF Len(opt) = 1 /\ opt[1].t = "string" /\ Len(opt[1].v) >= least
    THEN Accepted(opt[1]) ELSE Rejected

\* z.number(), with .int() when whole
zJsonNumber(opt, whole) ==
    IF Len(opt) = 1 /\ opt[1].t = "number" /\ (whole => opt[1].v % 10000 = 0)
    THEN Accepted(opt[1]) ELSE Rejected

\* z.boolean()
zBoolean(opt) == IF Len(opt) = 1 /\ opt[1].t = "boolean" THEN Accepted(opt[1]) ELSE Rejected

\* z.unknown()
zUnknown(opt) == IF Len(opt) = 1 THEN Accepted(opt[1]) ELSE Rejected

\* a key of a z.object shape: result is what the schema of the key gives for the
\* value opt; a key that is missing passes when its schema is .optional()
Field(word, optional, opt, result) ==
    [key |-> Chars(word), optional |-> optional, present |-> Len(opt) = 1, result |-> result]

\* z.object(shape), with .passthrough() or without: the data holds the keys of the
\* shape that are present, in the order of the shape, then the unknown keys if they
\* pass through
zShape(object, fields, passthrough) ==
    LET kept == SelectSeq(fields, LAMBDA field : field.present)
        known == { fields[i].key : i \in 1..Len(fields) }
    IN  IF \E i \in 1..Len(fields) :
               IF fields[i].present THEN ~fields[i].result.success ELSE ~fields[i].optional
        THEN Rejected
        ELSE Accepted(JObject(
                 [i \in 1..Len(kept) |-> [key |-> kept[i].key, value |-> kept[i].result.data]]
                 \o (IF passthrough
                     THEN SelectSeq(object.v, LAMBDA member : member.key \notin known)
                     ELSE <<>>)))

\* the elements of an array value, none for another value
Elements(opt) == IF Len(opt) = 1 /\ opt[1].t = "array" THEN opt[1].v ELSE <<>>

\* z.array(schema): results are what the schema gives for the elements
zArray(opt, results) ==
    IF Len(opt) = 0 \/ opt[1].t # "array" THEN Rejected
    ELSE IF \E i \in 1..Len(results) : ~results[i].success THEN Rejected
    ELSE Accepted(JArray([i \in 1..Len(results) |-> results[i].data]))

\* the members of an object value, none for another value
Members(opt) == IF IsObject(opt) THEN opt[1].v ELSE <<>>

\* z.record(z.string(), schema): results are what the schema gives for the values
zRecord(opt, results) ==
    IF ~IsObject(opt) THEN Rejected
    ELSE IF \E i \in 1..Len(results) : ~results[i].success THEN Rejected
    ELSE Accepted(JObject([i \in 1..Len(results) |->
                              [key |-> opt[1].v[i].key, value |-> results[i].data]]))

\* the value of a key of an accepted object, <<>> when the key is missing
DataOf(result, word) == Lookup(result.data, word)

upstreamCitySchema_codeOnly(opt) ==
    IF ~IsObject(opt) THEN Rejected
    ELSE
    LET get(word) == Lookup(opt[1], word)
        transform(city) ==
            IF ~city.success THEN Rejected
            ELSE Accepted(JObject(
                     << [key |-> Chars("name"), value |-> DataOf(city, "name")[1]],
                        [key |-> Chars("country_code"),
                         value |-> IF DataOf(city, "country_code") # <<>>
                                   THEN DataOf(city, "country_code")[1]
                                   ELSE JString(<<>>)],
                        [key |-> Chars("lat"), value |-> DataOf(city, "lat")[1]],
                        [key |-> Chars("lng"), value |-> DataOf(city, "lng")[1]],
                        [key |-> Chars("timezone"),
                         value |-> DataOf(city, "timezone")[1]] >>))
    IN  transform(zShape(opt[1],
            << Field("name", FALSE, get("name"), zString(get("name"), 1)),
               Field("country_code", TRUE, get("country_code"),
                     zString(get("country_code"), 0)),
               Field("country", TRUE, get("country"), zString(get("country"), 0)),
               Field("lat", FALSE, get("lat"), zJsonNumber(get("lat"), FALSE)),
               Field("lng", FALSE, get("lng"), zJsonNumber(get("lng"), FALSE)),
               Field("timezone", FALSE, get("timezone"), zString(get("timezone"), 1)),
               Field("population", TRUE, get("population"),
                     zJsonNumber(get("population"), FALSE)) >>, FALSE))

upstreamCitySchema(opt) ==
    IF ~IsObject(opt) THEN Rejected
    ELSE
    LET get(word) == Lookup(opt[1], word)
        transform(city) ==
            IF ~city.success THEN Rejected
            ELSE Accepted(JObject(
                     << [key |-> Chars("name"), value |-> DataOf(city, "name")[1]],
                        [key |-> Chars("country_code"),
                         value |-> IF DataOf(city, "country_code") # <<>>
                                   THEN DataOf(city, "country_code")[1]
                                   ELSE IF DataOf(city, "country") # <<>>
                                   THEN DataOf(city, "country")[1]
                                   ELSE JString(<<>>)],
                        [key |-> Chars("lat"), value |-> DataOf(city, "lat")[1]],
                        [key |-> Chars("lng"), value |-> DataOf(city, "lng")[1]],
                        [key |-> Chars("timezone"),
                         value |-> DataOf(city, "timezone")[1]] >>
                     \o (IF DataOf(city, "population") = <<>> THEN <<>>
                         ELSE << [key |-> Chars("population"),
                                  value |-> DataOf(city, "population")[1]] >>)))
    IN  transform(zShape(opt[1],
            << Field("name", FALSE, get("name"), zString(get("name"), 1)),
               Field("country_code", TRUE, get("country_code"),
                     zString(get("country_code"), 0)),
               Field("country", TRUE, get("country"), zString(get("country"), 0)),
               Field("lat", FALSE, get("lat"), zJsonNumber(get("lat"), FALSE)),
               Field("lng", FALSE, get("lng"), zJsonNumber(get("lng"), FALSE)),
               Field("timezone", FALSE, get("timezone"), zString(get("timezone"), 1)),
               Field("population", TRUE, get("population"),
                     zJsonNumber(get("population"), FALSE)) >>, FALSE))

geoSearchResponseSchema(opt) ==
    IF ~IsObject(opt) THEN Rejected
    ELSE
    LET get(word) == Lookup(opt[1], word)
        cities == Elements(get("results"))
        count == zJsonNumber(get("count"), TRUE)
        transform(value) ==
            IF ~value.success THEN Rejected
            ELSE Accepted(JObject(
                     << [key |-> Chars("results"),
                         value |-> DataOf(value, "results")[1]],
                        [key |-> Chars("count"),
                         value |-> IF DataOf(value, "count") # <<>>
                                   THEN DataOf(value, "count")[1]
                                   ELSE JNumber(Len(DataOf(value, "results")[1].v)
                                                * 10000)] >>))
    IN  transform(zShape(opt[1],
            << Field("results", FALSE, get("results"),
                     zArray(get("results"),
                            [i \in 1..Len(cities) |-> upstreamCitySchema(<<cities[i]>>)])),
               Field("count", TRUE, get("count"),
                     IF count.success /\ count.data.v < 0 THEN Rejected ELSE count) >>,
            FALSE))

subjectSchema(opt) ==
    IF ~IsObject(opt) THEN Rejected
    ELSE
    LET get(word) == Lookup(opt[1], word)
        location == get("location")
        settings == get("settings")
        inLocation(word) == IF IsObject(location) THEN Lookup(location[1], word) ELSE <<>>
        inSettings(word) == IF IsObject(settings) THEN Lookup(settings[1], word) ELSE <<>>
        number(word) == Field(word, TRUE, inSettings(word),
                              zJsonNumber(inSettings(word), FALSE))
    IN  zShape(opt[1],
            << Field("name", TRUE, get("name"), zString(get("name"), 0)),
               Field("datetime", FALSE, get("datetime"), zString(get("datetime"), 0)),
               Field("location", FALSE, location,
                     IF ~IsObject(location) THEN Rejected
                     ELSE zShape(location[1],
                              << Field("city", FALSE, inLocation("city"),
                                       zString(inLocation("city"), 0)),
                                 Field("lat", FALSE, inLocation("lat"),
                                       zJsonNumber(inLocation("lat"), FALSE)),
                                 Field("lng", FALSE, inLocation("lng"),
                                       zJsonNumber(inLocation("lng"), FALSE)),
                                 Field("timezone", FALSE, inLocation("timezone"),
                                       zString(inLocation("timezone"), 0)) >>, FALSE)),
               Field("settings", FALSE, settings,
                     IF ~IsObject(settings) THEN Rejected
                     ELSE zShape(settings[1],
                              << Field("house_system", FALSE, inSettings("house_system"),
                                       zString(inSettings("house_system"), 0)),
                                 Field("zodiac_type", FALSE, inSettings("zodiac_type"),
                                       zString(inSettings("zodiac_type"), 0)),
                                 number("julian_day"), number("julian_day_tt"),
                                 number("delta_t_days"), number("delta_t_seconds") >>,
                              TRUE)) >>, FALSE)

planetSchema(opt) ==
    IF ~IsObject(opt) THEN Rejected
    ELSE
    LET get(word) == Lookup(opt[1], word)
        string(word, optional) == Field(word, optional, get(word), zString(get(word), 0))
        number(word, optional) ==
            Field(word, optional, get(word), zJsonNumber(get(word), FALSE))
        boolean(word, optional) == Field(word, optional, get(word), zBoolean(get(word)))
    IN  zShape(opt[1],
            << string("id", FALSE), string("name", FALSE), string("sign", FALSE),
               string("sign_id", TRUE), number("pos", FALSE), number("abs_pos", FALSE),
               number("house", FALSE), boolean("retrograde", FALSE),
               number("speed", TRUE), boolean("is_stationary", TRUE),
               string("variant", TRUE) >>, TRUE)

houseSchema(opt) ==
    IF ~IsObject(opt) THEN Rejected
    ELSE
    LET get(word) == Lookup(opt[1], word)
        string(word) == Field(word, FALSE, get(word), zString(get(word), 0))
        number(word) == Field(word, FALSE, get(word), zJsonNumber(get(word), FALSE))
    IN  zShape(opt[1],
            << number("house"), string("name"), string("sign"), string("sign_id"),
               number("pos"), number("abs_pos") >>, FALSE)

angleDetailSchema(opt) ==
    IF ~IsObject(opt) THEN Rejected
    ELSE
    LET get(word) == Lookup(opt[1], word)
        string(word) == Field(word, FALSE, get(word), zString(get(word), 0))
        number(word) == Field(word, FALSE, get(word), zJsonNumber(get(word), FALSE))
    IN  zShape(opt[1],
            << string("sign"), string("sign_id"), number("pos"), number("abs_pos"),
               number("house") >>, FALSE)

aspectSchema(opt) ==
    IF ~IsObject(opt) THEN Rejected
    ELSE
    LET get(word) == Lookup(opt[1], word)
        string(word) == Field(word, FALSE, get(word), zString(get(word), 0))
        number(word) == Field(word, FALSE, get(word), zJsonNumber(get(word), FALSE))
    IN  zShape(opt[1],
            << string("p1"), string("p2"), string("type"), number("orb"), number("deg"),
               Field("is_major", FALSE, get("is_major"), zBoolean(get("is_major"))) >>,
            FALSE)

aspectsSummarySchema(opt) ==
    IF ~IsObject(opt) THEN Rejected
    ELSE
    LET get(word) == Lookup(opt[1], word)
        whole(word) == Field(word, FALSE, get(word), zJsonNumber(get(word), TRUE))
        byType == Members(get("by_type"))
    IN  zShape(opt[1],
            << whole("total"), whole("major"), whole("minor"),
               Field("by_type", FALSE, get("by_type"),
                     zRecord(get("by_type"),
                             [i \in 1..Len(byType) |->
                                 zJsonNumber(<<byType[i].value>>, FALSE)])) >>, FALSE)

natalResponseSchema(opt) ==
    IF ~IsObject(opt) THEN Rejected
    ELSE
    LET get(word) == Lookup(opt[1], word)
        planets == Elements(get("planets"))
        houses == Elements(get("houses"))
        aspects == Elements(get("aspects"))
        details == Members(get("angles_details"))
        angles == get("angles")
        angle(word, optional) ==
            LET value == IF IsObject(angles) THEN Lookup(angles[1], word) ELSE <<>>
            IN  Field(word, optional, value, zJsonNumber(value, FALSE))
    IN  zShape(opt[1],
            << Field("subject", FALSE, get("subject"), subjectSchema(get("subject"))),
               Field("planets", FALSE, get("planets"),
                     zArray(get("planets"),
                            [i \in 1..Len(planets) |-> planetSchema(<<planets[i]>>)])),
               Field("houses", FALSE, get("houses"),
                     zArray(get("houses"),
                            [i \in 1..Len(houses) |-> houseSchema(<<houses[i]>>)])),
               Field("angles", FALSE, angles,
                     IF ~IsObject(angles) THEN Rejected
                     ELSE zShape(angles[1],
                              << angle("asc", FALSE), angle("mc", FALSE),
                                 angle("ic", FALSE), angle("dc", FALSE),
                                 angle("vertex", TRUE) >>, FALSE)),
               Field("angles_details", FALSE, get("angles_details"),
                     zRecord(get("angles_details"),
                             [i \in 1..Len(details) |->
                                 angleDetailSchema(<<details[i].value>>)])),
               Field("aspects", FALSE, get("aspects"),
                     zArray(get("aspects"),
                            [i \in 1..Len(aspects) |-> aspectSchema(<<aspects[i]>>)])),
               Field("aspects_summary", FALSE, get("aspects_summary"),
                     aspectsSummarySchema(get("aspects_summary"))),
               Field("interpretation", TRUE, get("interpretation"),
                     zUnknown(get("interpretation"))),
               Field("dominants", TRUE, get("dominants"), zUnknown(get("dominants"))) >>,
            TRUE)

----------------------------------------------------------------------------
(* The upstream client (lib/api/freeastro).  A call gives                  *)
(* [threw, fetched, error] or [threw, fetched, value]: fetched says        *)
(* whether fetch was called.  env is process.env.FREE_ASTRO_API_KEY, up    *)
(* is what the upstream service does with the request: the fetch settles   *)
(* at headersAt ms with a response or a failure, the body is read or the   *)
(* connection fails at bodyAt ms.                                          *)

REQUEST_TIMEOUT_MS == 15000

Raise(error, fetched) == [threw |-> TRUE, fetched |-> fetched, error |-> error]

Result(value, fetched) == [threw |-> FALSE, fetched |-> fetched, value |-> value]

ApiProxyError(status, code, message, details) ==
    [name |-> "ApiProxyError", status |-> status, code |-> code, message |-> message,
     details |-> details]

\* the rejection of a fetch that the signal aborted
AbortError == [name |-> "AbortError"]

\* the rejection of a fetch that did not reach the server, or lost the connection
TypeError == [name |-> "TypeError"]

getStatusMessage(status) ==
    CASE status = 400 -> "Invalid request payload."
      [] status = 401 -> "Authentication failed with upstream API."
      [] status = 403 -> "Upstream API access denied."
      [] status = 404 -> "Requested resource not found."
      [] status = 408 -> "Request timed out."
      [] status = 429 -> "Rate limit reached. Try again shortly."
      [] status = 500 -> "Upstream API server error."
      [] status = 502 -> "Invalid response received from upstream API."
      [] status = 503 -> "Upstream API is temporarily unavailable."
      [] status = 504 -> "Upstream API request timed out."
      [] OTHER -> "Unexpected API error."

getApiKey(env) ==
    IF env = Undefined \/ env[1] = <<>>
    THEN Raise(ApiProxyError(500, Chars("MISSING_API_KEY"),
                             "FREE_ASTRO_API_KEY is not configured on the server.",
                             Undefined), FALSE)
    ELSE Result(env[1], FALSE)

\* response.ok
ResponseOk(status) == status \in 200..299

\* await fetch(...), await response.text(): the text, or what is thrown
FetchText(up) ==
    IF up.headersAt > REQUEST_TIMEOUT_MS THEN Raise(AbortError, TRUE)
    ELSE IF up.fetch = "failure" THEN Raise(TypeError, TRUE)
    ELSE IF up.bodyAt > REQUEST_TIMEOUT_MS THEN Raise(AbortError, TRUE)
    ELSE IF up.text = "failure" THEN Raise(TypeError, TRUE)
    ELSE Result(up.raw, TRUE)

\* body of freeAstroFetch: null for an empty text, {raw} for a text that is not JSON
BodyOf(raw) ==
    LET orRaw(parsed) ==
            IF parsed.ok THEN parsed.v ELSE JObject(<<Member("raw", JString(raw))>>)
    IN  IF raw = <<>> THEN [t |-> "null", v |-> 0] ELSE orRaw(JsonParse(raw))

\* schema.safeParse(body) of the schema that the call hands to freeAstroFetch
SafeParse(schema, body) ==
    CASE schema = "geoSearchResponseSchema" -> geoSearchResponseSchema(<<body>>)
      [] schema = "natalResponseSchema" -> natalResponseSchema(<<body>>)

\* parsed.error.flatten(), whose content the model leaves out
Flattened == JObject(<<>>)

freeAstroFetch_try(env, up, schema) ==
    LET validated(parsed) ==
            IF ~parsed.success
            THEN Raise(ApiProxyError(502, Chars("INVALID_UPSTREAM_RESPONSE"),
                                     "Upstream response did not match expected schema.",
                                     Some(Flattened)), TRUE)
            ELSE Result(parsed.data, TRUE)
        answered(key, text, body) ==
            IF key.threw THEN key
            ELSE IF text.threw THEN text
            ELSE IF ~ResponseOk(up.status)
            THEN Raise(ApiProxyError(up.status,
                                     Chars("UPSTREAM_") \o DecimalDigits(up.status),
                                     getStatusMessage(up.status), Some(body)), TRUE)
            ELSE validated(SafeParse(schema, body))
    IN  answered(getApiKey(env), FetchText(up), BodyOf(up.raw))

freeAstroFetch_catch_sameForAbort(thrown) ==
    IF thrown.error.name = "ApiProxyError" THEN thrown
    ELSE Raise(ApiProxyError(502, Chars("UPSTREAM_NETWORK_ERROR"),
                             "Could not reach upstream API.", Some(JObject(<<>>))),
               thrown.fetched)

\* catch of freeAstroFetch
freeAstroFetch_catch(thrown) ==
    IF thrown.error.name = "ApiProxyError" THEN thrown
    ELSE IF thrown.error.name = "AbortError"
    THEN Raise(ApiProxyError(504, Chars("UPSTREAM_TIMEOUT"), "Upstream API timed out.",
                             Undefined), thrown.fetched)
    ELSE Raise(ApiProxyError(502, Chars("UPSTREAM_NETWORK_ERROR"),
                             "Could not reach upstream API.", Some(JObject(<<>>))),
               thrown.fetched)

freeAstroFetch(env, up, schema) ==
    LET settled(attempt) == IF attempt.threw THEN freeAstroFetch_catch(attempt) ELSE attempt
    IN  settled(freeAstroFetch_try(env, up, schema))

searchCities(params, env, up) == freeAstroFetch(env, up, "geoSearchResponseSchema")

\* a validated payload as the JSON value that a schema walks
PayloadValue(payload) ==
    Lookup(EnvelopeValue([payload |-> payload, createdAt |-> 10000]), "payload")[1]

\* what schema.parse throws
ZodError == [name |-> "ZodError"]

calculateNatal(payload, env, up) ==
    IF ~natalRequestSchema(<<PayloadValue(payload)>>).success THEN Raise(ZodError, FALSE)
    ELSE freeAstroFetch(env, up, "natalResponseSchema")

\* raw.includes(word)
Includes(raw, word) == \E i \in 1..Len(raw) : HasWordAt(raw, i, word)

\* chartSvgRequestSchema.parse of the payload with the chart settings: the settings
\* are constants that the extension of the schema accepts, the name is replaced
chartSvgRequestSchema(payload) ==
    natalRequestSchema(
        <<PayloadValue([payload EXCEPT
              !.name = IF payload.name = Undefined \/ StringTrim(payload.name[1]) = <<>>
                       THEN Some(Chars("Unknown"))
                       ELSE Some(StringTrim(payload.name[1]))])>>)

calculateChartSvg_try(env, up) ==
    LET key == getApiKey(env)
        text == FetchText(up)
    IN  IF key.threw THEN key
        ELSE IF text.threw THEN text
        ELSE IF ~ResponseOk(up.status)
        THEN Raise(ApiProxyError(up.status, Chars("UPSTREAM_") \o DecimalDigits(up.status),
                                 getStatusMessage(up.status), Some(JString(up.raw))), TRUE)
        ELSE IF ~Includes(up.raw, "<svg")
        THEN Raise(ApiProxyError(502, Chars("INVALID_CHART_SVG_RESPONSE"),
                                 "Upstream SVG chart response is invalid.", Undefined), TRUE)
        ELSE Result(up.raw, TRUE)

\* catch of calculateChartSvg
calculateChartSvg_catch(thrown) ==
    IF thrown.error.name = "ApiProxyError" THEN thrown
    ELSE IF thrown.error.name = "AbortError"
    THEN Raise(ApiProxyError(504, Chars("UPSTREAM_TIMEOUT"), "Upstream API timed out.",
                             Undefined), thrown.fetched)
    ELSE Raise(ApiProxyError(502, Chars("UPSTREAM_NETWORK_ERROR"),
                             "Could not reach upstream API.", Some(JObject(<<>>))),
               thrown.fetched)

calculateChartSvg(payload, env, up) ==
    IF ~chartSvgRequestSchema(payload).success THEN Raise(ZodError, FALSE)
    ELSE LET attempt == calculateChartSvg_try(env, up)
         IN  IF attempt.threw THEN calculateChartSvg_catch(attempt) ELSE attempt

\* the texts an upstream response can hold.  Cities that the schema accepts:
\* {"results":[{"name":"Paris","country":"FR","lat":48.8534,"lng":2.3488,"timezone":"Europe/Paris"}]}
GeoText ==
    << 123, 34, 114, 101, 115, 117, 108, 116, 115, 34, 58, 91, 123, 34, 110, 97, 109,
       101, 34, 58, 34, 80, 97, 114, 105, 115, 34, 44, 34, 99, 111, 117, 110, 116, 114,
       121, 34, 58, 34, 70, 82, 34, 44, 34, 108, 97, 116, 34, 58, 52, 56, 46, 56, 53,
       51, 52, 44, 34, 108, 110, 103, 34, 58, 50, 46, 51, 52, 56, 56, 44, 34, 116, 105,
       109, 101, 122, 111, 110, 101, 34, 58, 34, 69, 117, 114, 111, 112, 101, 47, 80,
       97, 114, 105, 115, 34, 125, 93, 125 >>

\* cities of which one has an empty name:
\* {"results":[{"name":"","lat":48.8534,"lng":2.3488,"timezone":"Europe/Paris"}],"count":1}
GeoTextUnnamed ==
    << 123, 34, 114, 101, 115, 117, 108, 116, 115, 34, 58, 91, 123, 34, 110, 97, 109,
       101, 34, 58, 34, 34, 44, 34, 108, 97, 116, 34, 58, 52, 56, 46, 56, 53, 51, 52,
       44, 34, 108, 110, 103, 34, 58, 50, 46, 51, 52, 56, 56, 44, 34, 116, 105, 109,
       101, 122, 111, 110, 101, 34, 58, 34, 69, 117, 114, 111, 112, 101, 47, 80, 97,
       114, 105, 115, 34, 125, 93, 44, 34, 99, 111, 117, 110, 116, 34, 58, 49, 125 >>

\* a chart that the schema accepts:
\* {"subject":{"datetime":"1990-06-15T14:30","location":{"city":"Paris","lat":48.85
\* 34,"lng":2.3488,"timezone":"Europe/Paris"},"settings":{"house_system":"placidus"
\* ,"zodiac_type":"tropical"}},"planets":[],"houses":[],"angles":{"asc":1.5,"mc":2,
\* "ic":3,"dc":4},"angles_details":{},"aspects":[{"p1":"sun","p2":"moon","type":"tr
\* ine","orb":1.2,"deg":120,"is_major":true}],"aspects_summary":{"total":1,"major":
\* 1,"minor":0,"by_type":{"trine":1}}}
NatalText ==
    << 123, 34, 115, 117, 98, 106, 101, 99, 116, 34, 58, 123, 34, 100, 97, 116, 101,
       116, 105, 109, 101, 34, 58, 34, 49, 57, 57, 48, 45, 48, 54, 45, 49, 53, 84, 49,
       52, 58, 51, 48, 34, 44, 34, 108, 111, 99, 97, 116, 105, 111, 110, 34, 58, 123,
       34, 99, 105, 116, 121, 34, 58, 34, 80, 97, 114, 105, 115, 34, 44, 34, 108, 97,
       116, 34, 58, 52, 56, 46, 56, 53, 51, 52, 44, 34, 108, 110, 103, 34, 58, 50, 46,
       51, 52, 56, 56, 44, 34, 116, 105, 109, 101, 122, 111, 110, 101, 34, 58, 34, 69,
       117, 114, 111, 112, 101, 47, 80, 97, 114, 105, 115, 34, 125, 44, 34, 115, 101,
       116, 116, 105, 110, 103, 115, 34, 58, 123, 34, 104, 111, 117, 115, 101, 95, 115,
       121, 115, 116, 101, 109, 34, 58, 34, 112, 108, 97, 99, 105, 100, 117, 115, 34,
       44, 34, 122, 111, 100, 105, 97, 99, 95, 116, 121, 112, 101, 34, 58, 34, 116,
       114, 111, 112, 105, 99, 97, 108, 34, 125, 125, 44, 34, 112, 108, 97, 110, 101,
       116, 115, 34, 58, 91, 93, 44, 34, 104, 111, 117, 115, 101, 115, 34, 58, 91, 93,
       44, 34, 97, 110, 103, 108, 101, 115, 34, 58, 123, 34, 97, 115, 99, 34, 58, 49,
       46, 53, 44, 34, 109, 99, 34, 58, 50, 44, 34, 105, 99, 34, 58, 51, 44, 34, 100,
       99, 34, 58, 52, 125, 44, 34, 97, 110, 103, 108, 101, 115, 95, 100, 101, 116, 97,
       105, 108, 115, 34, 58, 123, 125, 44, 34, 97, 115, 112, 101, 99, 116, 115, 34,
       58, 91, 123, 34, 112, 49, 34, 58, 34, 115, 117, 110, 34, 44, 34, 112, 50, 34,
       58, 34, 109, 111, 111, 110, 34, 44, 34, 116, 121, 112, 101, 34, 58, 34, 116,
       114, 105, 110, 101, 34, 44, 34, 111, 114, 98, 34, 58, 49, 46, 50, 44, 34, 100,
       101, 103, 34, 58, 49, 50, 48, 44, 34, 105, 115, 95, 109, 97, 106, 111, 114, 34,
       58, 116, 114, 117, 101, 125, 93, 44, 34, 97, 115, 112, 101, 99, 116, 115, 95,
       115, 117, 109, 109, 97, 114, 121, 34, 58, 123, 34, 116, 111, 116, 97, 108, 34,
       58, 49, 44, 34, 109, 97, 106, 111, 114, 34, 58, 49, 44, 34, 109, 105, 110, 111,
       114, 34, 58, 48, 44, 34, 98, 121, 95, 116, 121, 112, 101, 34, 58, 123, 34, 116,
       114, 105, 110, 101, 34, 58, 49, 125, 125, 125 >>

\* the body of an error: {"detail":"Not found"}
DetailText ==
    << 123, 34, 100, 101, 116, 97, 105, 108, 34, 58, 34, 78, 111, 116, 32, 102, 111,
       117, 110, 100, 34, 125 >>

\* a page: <html>Bad gateway</html>
HtmlText ==
    << 60, 104, 116, 109, 108, 62, 66, 97, 100, 32, 103, 97, 116, 101, 119, 97, 121,
       60, 47, 104, 116, 109, 108, 62 >>

\* a drawing: <svg viewBox="0 0 8 8"></svg>
SvgText ==
    << 60, 115, 118, 103, 32, 118, 105, 101, 119, 66, 111, 120, 61, 34, 48, 32, 48, 32,
       56, 32, 56, 34, 62, 60, 47, 115, 118, 103, 62 >>

RawSamples == {<<>>, GeoText, GeoTextUnnamed, NatalText, DetailText, HtmlText, SvgText}

StatusSamples == {200, 204, 304, 404, 500, 502, 504}

\* the fetch settles, and the body ends, before or after the timeout
UpstreamSamples ==
    { [fetch |-> fetch, headersAt |-> headersAt, text |-> text, bodyAt |-> bodyAt,
       status |-> status, raw |-> raw] :
          fetch \in {"response", "failure"}, headersAt \in {120, REQUEST_TIMEOUT_MS + 1},
          text \in {"ok", "failure"}, bodyAt \in {130, REQUEST_TIMEOUT_MS + 2},
          status \in StatusSamples, raw \in RawSamples }

\* FREE_ASTRO_API_KEY: not set, empty, set
KeySamples == {Undefined, Some(<<>>), Some(<<107, 101, 121>>)}

\* the payloads that the routes hand over
PayloadSamples == { e.payload : e \in LinkEnvelopes }

InitUpstream ==
    /\ pc = "upstream"
    /\ args \in [env : KeySamples, up : UpstreamSamples, payload : PayloadSamples]
    /\ ret = Null
    /\ InitReportView

CallSearchCities ==
    /\ pc = "upstream"
    /\ pc' = "searchCities"
    /\ ret' = searchCities([q |-> <<112, 97>>, limit |-> 8], args.env, args.up)
    /\ UNCHANGED args
    /\ PureFrame

CallCalculateNatal ==
    /\ pc = "upstream"
    /\ pc' = "calculateNatal"
    /\ ret' = calculateNatal(args.payload, args.env, args.up)
    /\ UNCHANGED args
    /\ PureFrame

CallCalculateChartSvg ==
    /\ pc = "upstream"
    /\ pc' = "calculateChartSvg"
    /\ ret' = calculateChartSvg(args.payload, args.env, args.up)
    /\ UNCHANGED args
    /\ PureFrame

NextUpstream == CallSearchCities \/ CallCalculateNatal \/ CallCalculateChartSvg

SpecUpstream == InitUpstream /\ [][NextUpstream]_vars

\* the timer of the call fired before the response, or before the end of its body
TimedOut(up) ==
    \/ up.headersAt > REQUEST_TIMEOUT_MS
    \/ up.fetch = "response" /\ up.bodyAt > REQUEST_TIMEOUT_MS

\* the request or the reading of the body failed before the timer fired
NetworkFailed(up) ==
    /\ ~TimedOut(up)
    /\ up.fetch = "failure" \/ up.text = "failure"

\* the body of a 2xx response has the shape that the call expects
ShapeFits(call, raw) ==
    CASE call = "searchCities" -> geoSearchResponseSchema(<<BodyOf(raw)>>).success
      [] call = "calculateNatal" -> natalResponseSchema(<<BodyOf(raw)>>).success
      [] call = "calculateChartSvg" -> Includes(raw, "<svg")

\* the error of the call is an ApiProxyError with this status and code
FailsWith(status, code) ==
    /\ ret.threw
    /\ ret.error.name = "ApiProxyError"
    /\ ret.error.status = status
    /\ ret.error.code = code

\* C15: an upstream call that fails throws one ApiProxyError: 500 without an API key;
\* else 504 UPSTREAM_TIMEOUT when the timer fired; else 502 UPSTREAM_NETWORK_ERROR
\* when the request failed; else, for a status that is not 2xx, that status with
\* code UPSTREAM_<status>, whatever the body; else 502 with a shape code when the
\* body has not the expected shape.  Only a 2xx response of the expected shape gives
\* a result, and the timeout code and the network code are never given for the other
\* cause.
C15_UpstreamFailureMapping ==
    pc \in {"searchCities", "calculateNatal", "calculateChartSvg"} =>
        LET up == args.up
            hasKey == args.env # Undefined /\ args.env[1] # <<>>
            received == hasKey /\ ~TimedOut(up) /\ ~NetworkFailed(up)
        IN  /\ ret.threw => ret.error.name = "ApiProxyError"
            /\ ~hasKey => FailsWith(500, Chars("MISSING_API_KEY")) /\ ~ret.fetched
            /\ hasKey /\ TimedOut(up) => FailsWith(504, Chars("UPSTREAM_TIMEOUT"))
            /\ hasKey /\ NetworkFailed(up) =>
                   FailsWith(502, Chars("UPSTREAM_NETWORK_ERROR"))
            /\ received /\ ~ResponseOk(up.status) =>
                   FailsWith(up.status, Chars("UPSTREAM_") \o DecimalDigits(up.status))
            /\ received /\ ResponseOk(up.status) /\ ~ShapeFits(pc, up.raw) =>
                   \/ FailsWith(502, Chars("INVALID_UPSTREAM_RESPONSE"))
                   \/ FailsWith(502, Chars("INVALID_CHART_SVG_RESPONSE"))
            /\ ~ret.threw <=> received /\ ResponseOk(up.status) /\ ShapeFits(pc, up.raw)
            /\ ret.threw /\ ret.error.code = Chars("UPSTREAM_TIMEOUT") => TimedOut(up)
            /\ ret.threw /\ ret.error.code = Chars("UPSTREAM_NETWORK_ERROR") =>
                   NetworkFailed(up)

\* the timer fired while the body of a 2xx response of the right shape was read, and
\* the search for cities failed with 504 UPSTREAM_TIMEOUT
C15_Witness ==
    /\ pc = "searchCities"
    /\ args.env = Some(<<107, 101, 121>>)
    /\ args.up.fetch = "response" /\ args.up.headersAt < REQUEST_TIMEOUT_MS
    /\ args.up.bodyAt > REQUEST_TIMEOUT_MS
    /\ args.up.status = 200 /\ args.up.raw = GeoText
    /\ FailsWith(504, Chars("UPSTREAM_TIMEOUT"))

----------------------------------------------------------------------------
(* The boundary endpoints: GET /api/geo/search, POST /api/natal/calculate  *)
(* and POST /api/natal/chart-svg.  A handler gives a response              *)
(* [threw |-> FALSE, fetched, status, body], or the exception that leaves  *)
(* it.                                                                     *)

\* the statuses with which a Response takes no body
NullBodyStatuses == {101, 103, 204, 205, 304}

\* NextResponse.json(body, {status}): the Response constructor throws a TypeError for
\* a body with a null body status
NextResponseJson(body, status, fetched) ==
    IF status \in NullBodyStatuses THEN Raise(TypeError, fetched)
    ELSE [threw |-> FALSE, fetched |-> fetched, status |-> status, body |-> body]

toErrorResponse(thrown) ==
    IF thrown.error.name = "ApiProxyError"
    THEN NextResponseJson([error |-> [code |-> thrown.error.code,
                                      message |-> thrown.error.message,
                                      details |-> thrown.error.details]],
                          thrown.error.status, thrown.fetched)
    ELSE NextResponseJson([error |-> [code |-> Chars("INTERNAL_ERROR"),
                                      message |-> "Internal server error."]],
                          500, thrown.fetched)

\* what request.json() throws for a body that is not JSON
SyntaxError == [name |-> "SyntaxError"]

\* the 400 response of a handler whose schema rejects the input
InvalidInput(code, message) ==
    NextResponseJson([error |-> [code |-> Chars(code), message |-> message,
                                 details |-> Some(Flattened)]], 400, FALSE)

\* POST of /api/natal/calculate
\* the answer of the calculate route once calculateNatal has returned or thrown
POST_calculate_answer(data) ==
    IF data.threw THEN toErrorResponse(data)
    ELSE NextResponseJson(data.value, 200, data.fetched)

\* the calculate route once natalRequestSchema.safeParse(body) has given parsed
POST_calculate_parsed(parsed, env, up) ==
    IF ~parsed.success
    THEN InvalidInput("INVALID_PAYLOAD", "Invalid natal request payload.")
    ELSE POST_calculate_answer(calculateNatal(parsed.data, env, up))

\* the calculate route once request.json() has given body, or has thrown
POST_calculate_body(body, env, up) ==
    IF ~body.ok THEN toErrorResponse(Raise(SyntaxError, FALSE))
    ELSE POST_calculate_parsed(natalRequestSchema(<<body.v>>), env, up)

POST_calculate(request, env, up) ==
    POST_calculate_body(JsonParse(request.body), env, up)

\* POST of /api/natal/chart-svg
\* the answer of the chart-svg route once calculateChartSvg has returned or thrown
POST_chartSvg_answer(svg) ==
    IF svg.threw THEN toErrorResponse(svg)
    ELSE NextResponseJson(JObject(<<Member("svg", JString(svg.value))>>), 200, svg.fetched)

\* the chart-svg route once natalRequestSchema.safeParse(body) has given parsed
POST_chartSvg_parsed(parsed, env, up) ==
    IF ~parsed.success
    THEN InvalidInput("INVALID_PAYLOAD", "Invalid natal request payload.")
    ELSE POST_chartSvg_answer(calculateChartSvg(parsed.data, env, up))

\* the chart-svg route once request.json() has given body, or has thrown
POST_chartSvg_body(body, env, up) ==
    IF ~body.ok THEN toErrorResponse(Raise(SyntaxError, FALSE))
    ELSE POST_chartSvg_parsed(natalRequestSchema(<<body.v>>), env, up)

POST_chartSvg(request, env, up) ==
    POST_chartSvg_body(JsonParse(request.body), env, up)

\* Number(text) of z.coerce.number(), in ten-thousandths: white space is trimmed, the
\* empty text is 0, a sign and digits are their number, another text is NaN (the
\* texts of the model hold no fraction, exponent, radix prefix or Infinity)
NumberCoerce(text) ==
    LET trimmed == StringTrim(text)
        signed == trimmed # <<>> /\ trimmed[1] \in {43, 45}
        digits == IF signed THEN Tail(trimmed) ELSE trimmed
    IN  IF trimmed = <<>> THEN [nan |-> FALSE, v |-> 0]
        ELSE IF digits # <<>> /\ \A i \in 1..Len(digits) : IsDigit(digits[i])
        THEN [nan |-> FALSE,
              v |-> (IF trimmed[1] = 45 THEN -1 ELSE 1)
                        * DigitsValue(digits, 1, Len(digits)) * 10000]
        ELSE [nan |-> TRUE, v |-> 0]

AsciiUpper(c) == IF c \in 97..122 THEN c - 32 ELSE c

\* geoSearchQuerySchema.safeParse({q, limit, country}): q is a text or null, limit a
\* text, country a text or undefined
geoSearchQuerySchema(input) ==
    LET q == IF input.q = Null THEN Rejected
             ELSE zMax(zTrimmedString(<<JString(input.q[1])>>, 2), 100)
        number == NumberCoerce(input.limit)
        limit == IF number.nan THEN Rejected
                 ELSE zRange(zNumber(<<JNumber(number.v)>>, TRUE), 1, 50)
        country == IF input.country = Undefined THEN Accepted(Undefined)
                   ELSE IF Len(StringTrim(input.country[1])) # 2 THEN Rejected
                   ELSE Accepted(Some([i \in 1..2 |->
                                          AsciiUpper(StringTrim(input.country[1])[i])]))
    IN  IF q.success /\ limit.success /\ country.success
        THEN Accepted([q |-> q.data, limit |-> limit.data, country |-> country.data])
        ELSE Rejected

\* GET of /api/geo/search; request holds searchParams.get of q, limit and country
\* the answer of the search route once searchCities has returned or thrown
GET_search_answer(data) ==
    IF data.threw THEN toErrorResponse(data)
    ELSE NextResponseJson(data.value, 200, data.fetched)

\* the search route once geoSearchQuerySchema.safeParse has given parsed
GET_search_parsed(parsed, env, up) ==
    IF ~parsed.success THEN InvalidInput("INVALID_QUERY", "Invalid search query.")
    ELSE GET_search_answer(searchCities(parsed.data, env, up))

GET_search(request, env, up) ==
    GET_search_parsed(
        geoSearchQuerySchema(
            [q |-> request.q,
             limit |-> IF request.limit = Null THEN <<49, 48>> ELSE request.limit[1],
             country |-> request.country]),
        env, up)

\* the bodies of the POST requests: empty, a page, null, {}, and payloads that the
\* schema accepts or rejects
BodySamples ==
    {<<>>, HtmlText, Chars("null"), <<123, 125>>}
        \cup { JsonStringify(PayloadValue(e.payload)) :
                  e \in { s \in EnvelopeSamples :
                            /\ Len(s.payload.city) = 5
                            /\ Len(s.payload.include_features) = 2
                            /\ s.createdAt > 0 } }

\* the queries of the GET requests: q is missing, "p", "pa", " pa "; limit is missing,
\* "8", "0", "abc"; country is missing, "fr", "fra"
QuerySampleSet ==
    [q : {Null, Some(<<112>>), Some(<<112, 97>>), Some(<<32, 112, 97, 32>>)},
     limit : {Null, Some(<<56>>), Some(<<48>>), Some(<<97, 98, 99>>)},
     country : {Null, Some(<<102, 114>>), Some(<<102, 114, 97>>)}]

\* the upstream behaviours for the endpoints: those whose body, if any, is read
EndpointUpstreams ==
    { up \in UpstreamSamples : up.text = "ok" /\ up.bodyAt < REQUEST_TIMEOUT_MS }

InitEndpoints ==
    /\ pc = "request"
    /\ \E env \in KeySamples, up \in EndpointUpstreams :
           \/ \E body \in BodySamples, path \in {"calculate", "chart-svg"} :
                  args = [env |-> env, up |-> up, path |-> path, request |-> [body |-> body]]
           \/ \E query \in QuerySampleSet :
                  args = [env |-> env, up |-> up, path |-> "search", request |-> query]
    /\ ret = Null
    /\ InitReportView

HandlePostCalculate ==
    /\ pc = "request" /\ args.path = "calculate"
    /\ pc' = "POST_calculate"
    /\ ret' = POST_calculate(args.request, args.env, args.up)
    /\ UNCHANGED args
    /\ PureFrame

HandlePostChartSvg ==
    /\ pc = "request" /\ args.path = "chart-svg"
    /\ pc' = "POST_chartSvg"
    /\ ret' = POST_chartSvg(args.request, args.env, args.up)
    /\ UNCHANGED args
    /\ PureFrame

HandleGetSearch ==
    /\ pc = "request" /\ args.path = "search"
    /\ pc' = "GET_search"
    /\ ret' = GET_search(args.request, args.env, args.up)
    /\ UNCHANGED args
    /\ PureFrame

NextEndpoints == HandlePostCalculate \/ HandlePostChartSvg \/ HandleGetSearch

SpecEndpoints == InitEndpoints /\ [][NextEndpoints]_vars

\* the input of the request satisfies the schema of its endpoint
InputFits ==
    IF args.path = "search"
    THEN /\ args.request.q # Null
         /\ Len(StringTrim(args.request.q[1])) \in 2..100
         /\ args.request.limit = Null \/ args.request.limit[1] = <<56>>
         /\ args.request.country = Null \/ Len(StringTrim(args.request.country[1])) = 2
    ELSE /\ JsonParse(args.request.body).ok
         /\ natalRequestSchema(<<JsonParse(args.request.body).v>>).success

\* the result of the upstream service for the request, validated
UpstreamResult ==
    CASE args.path = "search" -> geoSearchResponseSchema(<<BodyOf(args.up.raw)>>).data
      [] args.path = "calculate" -> natalResponseSchema(<<BodyOf(args.up.raw)>>).data
      [] args.path = "chart-svg" -> JObject(<<Member("svg", JString(args.up.raw))>>)

\* C16: no exception leaves a handler; the answer has status 200 and holds the
\* validated upstream result, or it has an error status and a body
\* {error: {code, message, ...}}; a request whose input does not satisfy the schema
\* of the endpoint is answered with status 400 without a call of the upstream
\* service.
C16_EndpointAnswers ==
    pc \in {"POST_calculate", "POST_chartSvg", "GET_search"} =>
        /\ ~ret.threw
        /\ \/ ret.status = 200 /\ ret.body = UpstreamResult
           \/ /\ ret.status >= 400
              /\ DOMAIN ret.body = {"error"}
              /\ {"code", "message"} \subseteq DOMAIN ret.body.error
        /\ ~InputFits => ret.status = 400 /\ ~ret.fetched

----------------------------------------------------------------------------
(* The chart overlay: report-view.tsx 497-661 (tokens and keys), 934-1114  *)
(* (applyChartSelectionStyles), 1139-1148 (effects) and 1744-1789 (click). *)
(*                                                                         *)
(* chartDom is the sequence of the elements under the chart container in   *)
(* document order.  An element is                                          *)
(*   [tag, parent, attrs, style, box]:                                     *)
(* parent is the index of the parent element (0: the svg root), attrs maps *)
(* the names of the attributes present to their values, style holds the    *)
(* inline opacity and stroke-opacity, box is <<cx, cy>>, the centre of     *)
(* getBBox() in ten-thousandths, or Null where getBBox throws.  The texts  *)
(* of the model are ASCII.                                                 *)

\* String.prototype.toLowerCase
toLowerCase(str) == [i \in 1..Len(str) |-> AsciiLower(str[i])]

getAttribute(element, name) ==
    IF name \in DOMAIN element.attrs THEN Some(element.attrs[name]) ELSE Null

hasAttribute(element, name) == name \in DOMAIN element.attrs

setAttribute(element, name, value) ==
    [element EXCEPT !.attrs = [n \in DOMAIN element.attrs \cup {name} |->
                                   IF n = name THEN value ELSE element.attrs[n]]]

removeAttribute(element, name) ==
    [element EXCEPT !.attrs = [n \in DOMAIN element.attrs \ {name} |-> element.attrs[n]]]

\* a value of getAttribute that is neither null nor ""
Truthy(opt) == opt # Null /\ opt[1] # <<>>

\* str.startsWith(word)
startsWith(str, word) == Len(str) >= Len(word) /\ SubSeq(str, 1, Len(word)) = word

\* str.endsWith(word)
endsWith(str, word) ==
    Len(str) >= Len(word) /\ SubSeq(str, Len(str) - Len(word) + 1, Len(str)) = word

\* str.split(".")
SplitAtDots(str) ==
    LET dots == { i \in 1..Len(str) : str[i] = 46 }
        cuts == [k \in 0..(Cardinality(dots) + 1) |->
                    IF k = 0 THEN 0
                    ELSE IF k = Cardinality(dots) + 1 THEN Len(str) + 1
                    ELSE CHOOSE i \in dots : Cardinality({ j \in dots : j < i }) = k - 1]
    IN  [k \in 1..(Cardinality(dots) + 1) |-> SubSeq(str, cuts[k - 1] + 1, cuts[k] - 1)]

normalizeSvgPlanetToken_keepNodes(token) == StringTrim(toLowerCase(token))

normalizeSvgPlanetToken(token) ==
    LET normalized == StringTrim(toLowerCase(token))
    IN  IF normalized = Chars("true_node") \/ normalized = Chars("mean_node")
        THEN Chars("north_node")
        ELSE normalized

\* raw.toLowerCase().trim().replace(/[\s-]+/g, "_").replace(/[^a-z0-9_]/g, "")
normalizeTokenText(raw) ==
    LET text == StringTrim(toLowerCase(raw))
        IsGap(c) == IsTrimWhitespace(c) \/ c = 45
        Kept(c) == c \in 97..122 \/ c \in 48..57 \/ c = 95
    IN  Concat([i \in 1..Len(text) |->
            IF IsGap(text[i])
            THEN IF i > 1 /\ IsGap(text[i - 1]) THEN <<>> ELSE <<95>>
            ELSE IF Kept(text[i]) THEN <<text[i]>> ELSE <<>>])

knownTokens ==
    <<"north_node", "true_node", "mean_node", "south_node", "lilith", "chiron",
      "mercury", "jupiter", "saturn", "uranus", "neptune", "pluto", "venus", "mars",
      "moon", "sun", "ascendant", "asc", "midheaven", "mc", "vertex", "fortune">>

\* id.match(/^planet_(.+)$/)?.[1]
MatchPlanetPrefix(id) ==
    IF startsWith(id, Chars("planet_")) /\ Len(id) > 7
    THEN Some(SubSeq(id, 8, Len(id))) ELSE Undefined

\* id.match(/^(.+)_planet(?:_.+)?$/)?.[1]: the group is greedy, so the last fitting
\* place of "_planet" is taken
MatchPlanetInfix(id) ==
    LET fits == { i \in 2..Len(id) :
                    /\ HasWordAt(id, i, "_planet")
                    /\ \/ i + 7 = Len(id) + 1
                       \/ i + 7 < Len(id) /\ id[i + 7] = 95 }
    IN  IF fits = {} THEN Undefined
        ELSE Some(SubSeq(id, 1, (CHOOSE i \in fits : \A j \in fits : j <= i) - 1))

\* id.match(/^(.+)_(?:glyph|symbol|label|marker|point)$/)?.[1]
MatchGlyphSuffix(id) ==
    LET suffixes == { <<95>> \o Chars(w) : w \in {"glyph", "symbol", "label", "marker", "point"} }
        fits == { x \in suffixes : endsWith(id, x) /\ Len(id) > Len(x) }
    IN  IF fits = {} THEN Undefined
        ELSE Some(SubSeq(id, 1, Len(id) - Len(CHOOSE x \in fits : TRUE)))

\* extractPlanetTokenFromElement: <<token>> or Null
extractPlanetTokenFromElement(element) ==
    LET dataPlanet == getAttribute(element, "data-planet")
        dataBody == getAttribute(element, "data-body")
        id == IF Truthy(getAttribute(element, "id"))
              THEN toLowerCase(element.attrs["id"]) ELSE <<>>
        normalizedId == normalizeTokenText(id)
        explicit == IF MatchPlanetPrefix(normalizedId) # Undefined
                    THEN MatchPlanetPrefix(normalizedId)
                    ELSE IF MatchPlanetInfix(normalizedId) # Undefined
                    THEN MatchPlanetInfix(normalizedId)
                    ELSE MatchGlyphSuffix(normalizedId)
        known == { k \in 1..Len(knownTokens) : Includes(normalizedId, knownTokens[k]) }
    IN  IF Truthy(dataPlanet) THEN Some(normalizeSvgPlanetToken(normalizeTokenText(dataPlanet[1])))
        ELSE IF Truthy(dataBody) THEN Some(normalizeSvgPlanetToken(normalizeTokenText(dataBody[1])))
        ELSE IF id = <<>> THEN Null
        ELSE IF startsWith(id, Chars("sign-")) \/ startsWith(id, Chars("house-")) THEN Null
        ELSE IF explicit # Undefined THEN Some(normalizeSvgPlanetToken(explicit[1]))
        ELSE IF known # {}
        THEN Some(normalizeSvgPlanetToken(
                 Chars(knownTokens[CHOOSE k \in known : \A j \in known : k <= j])))
        ELSE Null

\* token.toLowerCase().replace(/\s+/g, "_"), then the aliases
normalizeAspectEndpointToken(token) ==
    LET lower == toLowerCase(token)
        normalized == Concat([i \in 1..Len(lower) |->
                         IF IsTrimWhitespace(lower[i])
                         THEN IF i > 1 /\ IsTrimWhitespace(lower[i - 1]) THEN <<>> ELSE <<95>>
                         ELSE <<lower[i]>>])
    IN  IF normalized = Chars("asc") THEN Chars("ascendant")
        ELSE IF normalized = Chars("mc") THEN Chars("midheaven")
        ELSE IF normalized = Chars("true_node") \/ normalized = Chars("mean_node")
        THEN Chars("north_node")
        ELSE normalized

ASPECT_LINE_STROKES == {Chars("#1a1a1a"), Chars("#c00000"), Chars("#0047ab"), Chars("#2e7d32")}

OrEmpty(opt) == IF opt = Null THEN <<>> ELSE opt[1]

isAspectLineElement(element) ==
    /\ element.tag = "line"
    /\ StringTrim(toLowerCase(OrEmpty(getAttribute(element, "stroke")))) \in ASPECT_LINE_STROKES

isInteractiveAspectLine(element) ==
    /\ element.tag = "line"
    /\ Truthy(getAttribute(element, "data-key")) \/ isAspectLineElement(element)

getAspectLineKey(element) ==
    IF Truthy(getAttribute(element, "data-key"))
    THEN Chars("data:") \o toLowerCase(element.attrs["data-key"])
    ELSE Join(<<OrEmpty(getAttribute(element, "x1")), OrEmpty(getAttribute(element, "y1")),
                OrEmpty(getAttribute(element, "x2")), OrEmpty(getAttribute(element, "y2")),
                toLowerCase(OrEmpty(getAttribute(element, "stroke"))),
                OrEmpty(getAttribute(element, "stroke-width"))>>, Chars("|"))

\* the attribute that records the original value of an attribute
OriginalOf(name) ==
    CASE name = "opacity" -> "data-original-opacity"
      [] name = "stroke-opacity" -> "data-original-stroke-opacity"
      [] name = "transform" -> "data-original-transform"
      [] name = "fill" -> "data-original-fill"
      [] name = "stroke" -> "data-original-stroke"

CaptureOnce_always(element, name) ==
    setAttribute(element, OriginalOf(name),
                 IF getAttribute(element, name) = Null THEN Chars("__none__")
                 ELSE element.attrs[name])

\* if (!el.hasAttribute("data-original-x")) el.setAttribute("data-original-x",
\*     el.getAttribute("x") ?? "__none__")
CaptureOnce(element, name) ==
    IF hasAttribute(element, OriginalOf(name)) THEN element
    ELSE setAttribute(element, OriginalOf(name),
                      IF getAttribute(element, name) = Null THEN Chars("__none__")
                      ELSE element.attrs[name])

\* the recorded original is set again, or the attribute is removed
Restore(element, name) ==
    LET original == getAttribute(element, OriginalOf(name))
    IN  IF Truthy(original) /\ original[1] # Chars("__none__")
        THEN setAttribute(element, name, original[1])
        ELSE removeAttribute(element, name)

\* root.querySelectorAll('[data-key^="aspect."]')
IsAspectPrimitive(element) ==
    /\ hasAttribute(element, "data-key")
    /\ startsWith(element.attrs["data-key"], Chars("aspect."))

\* the key of an aspect primitive in applyChartSelectionStyles
PrimitiveKey(element) ==
    IF Truthy(getAttribute(element, "data-key"))
    THEN Chars("data:") \o toLowerCase(element.attrs["data-key"])
    ELSE <<>>

\* the body of the loop over the aspect primitives (report-view.tsx 943-1000)
StylePrimitive(element, selectedLineKey) ==
    LET captured == CaptureOnce(CaptureOnce(element, "opacity"), "stroke-opacity")
        selected == Truthy(selectedLineKey) /\ PrimitiveKey(captured) = selectedLineKey[1]
    IN  IF ~Truthy(selectedLineKey) \/ selected
        THEN Restore(Restore([captured EXCEPT !.style = [opacity |-> <<>>,
                                                         strokeOpacity |-> <<>>]],
                             "opacity"), "stroke-opacity")
        ELSE setAttribute(
                 setAttribute([captured EXCEPT !.style = [opacity |-> Chars("0.04"),
                                                          strokeOpacity |-> Chars("0.04")]],
                              "opacity", Chars("0.04")),
                 "stroke-opacity", Chars("0.04"))

\* selectedAspectColor after the loop: the stroke of the last selected primitive that
\* has one, "#000000" without one
SelectedAspectColor(dom, selectedLineKey) ==
    LET strokes == { i \in 1..Len(dom) :
                       /\ IsAspectPrimitive(dom[i])
                       /\ Truthy(selectedLineKey)
                       /\ PrimitiveKey(dom[i]) = selectedLineKey[1]
                       /\ Truthy(getAttribute(dom[i], "stroke")) }
    IN  IF strokes = {} THEN Chars("#000000")
        ELSE dom[CHOOSE i \in strokes : \A j \in strokes : j <= i].attrs["stroke"]

\* root.querySelectorAll('[id^="planet."],[data-key^="planet."],[id^="planet-"],
\* [data-planet],[data-body]') filtered by extractPlanetTokenFromElement(el) !== null
IsPlanetElement(element) ==
    /\ \/ hasAttribute(element, "id")
          /\ \/ startsWith(element.attrs["id"], Chars("planet."))
             \/ startsWith(element.attrs["id"], Chars("planet-"))
       \/ hasAttribute(element, "data-key")
          /\ startsWith(element.attrs["data-key"], Chars("planet."))
       \/ hasAttribute(element, "data-planet")
       \/ hasAttribute(element, "data-body")
    /\ extractPlanetTokenFromElement(element) # Null

\* element j is element e or lies below it
RECURSIVE IsWithin(_, _, _)
IsWithin(dom, j, e) ==
    IF j = e THEN TRUE
    ELSE IF j = 0 THEN FALSE
    ELSE IsWithin(dom, dom[j].parent, e)

\* translate(cx cy) scale(1.3) translate(-cx -cy) after the original transform
ScaledTransform(base, box) ==
    StringTrim(base \o Chars(" translate(") \o NumberText(box[1]) \o Chars(" ")
               \o NumberText(box[2]) \o Chars(") scale(1.3) translate(")
               \o NumberText(0 - box[1]) \o Chars(" ") \o NumberText(0 - box[2])
               \o Chars(")"))

\* setPlanetHighlight, the element itself: its transform (1010-1036)
StyleGlyphRoot(element, active) ==
    LET captured == CaptureOnce(element, "transform")
        original == getAttribute(captured, "data-original-transform")
        base == IF Truthy(original) /\ original[1] # Chars("__none__")
                THEN original[1] ELSE <<>>
    IN  IF active
        THEN IF captured.box = Null THEN captured
             ELSE setAttribute(captured, "transform", ScaledTransform(base, captured.box[1]))
        ELSE Restore(captured, "transform")

\* setPlanetHighlight, the loop over the element and the elements below it (1042-1094)
StyleGlyphNode(node, active, color) ==
    LET currentFill == getAttribute(node, "fill")
        currentStroke == getAttribute(node, "stroke")
        captured == CaptureOnce(CaptureOnce(CaptureOnce(CaptureOnce(node,
                        "fill"), "stroke"), "opacity"), "stroke-opacity")
        filled == IF Truthy(currentFill) /\ toLowerCase(currentFill[1]) # Chars("none")
                  THEN setAttribute(captured, "fill", color) ELSE captured
        stroked == IF Truthy(currentStroke) /\ toLowerCase(currentStroke[1]) # Chars("none")
                   THEN setAttribute(filled, "stroke", color) ELSE filled
    IN  IF active
        THEN setAttribute(setAttribute(stroked, "opacity", Chars("1")),
                          "stroke-opacity", Chars("1"))
        ELSE Restore(Restore(Restore(Restore(captured,
                 "fill"), "stroke"), "opacity"), "stroke-opacity")

setPlanetHighlight(dom, e, active, color) ==
    [j \in 1..Len(dom) |->
        LET rooted == IF j = e THEN StyleGlyphRoot(dom[j], active) ELSE dom[j]
        IN  IF IsWithin(dom, j, e) THEN StyleGlyphNode(rooted, active, color) ELSE rooted]

IsMatch_exactToken(element, selectedEndpoints) ==
    /\ selectedEndpoints # Null
    /\ extractPlanetTokenFromElement(element)[1]
           \in {selectedEndpoints[1].p1, selectedEndpoints[1].p2}

\* the glyph of element e is one of the selected endpoints
IsMatch(element, selectedEndpoints) ==
    LET token == extractPlanetTokenFromElement(element)
    IN  /\ selectedEndpoints # Null
        /\ normalizeAspectEndpointToken(token[1])
               \in {normalizeAspectEndpointToken(selectedEndpoints[1].p1),
                    normalizeAspectEndpointToken(selectedEndpoints[1].p2)}

\* the loops over planetElements (1097-1111), from element e on
RECURSIVE StyleGlyphsFrom(_, _, _, _)
StyleGlyphsFrom(dom, e, selectedEndpoints, color) ==
    IF e > Len(dom) THEN dom
    ELSE IF ~IsPlanetElement(dom[e])
              \/ (selectedEndpoints # Null /\ ~Truthy(extractPlanetTokenFromElement(dom[e])))
    THEN StyleGlyphsFrom(dom, e + 1, selectedEndpoints, color)
    ELSE StyleGlyphsFrom(setPlanetHighlight(dom, e, IsMatch(dom[e], selectedEndpoints), color),
                         e + 1, selectedEndpoints, color)

applyChartSelectionStyles(dom, selectedLineKey, selectedEndpoints) ==
    LET dimmed == [i \in 1..Len(dom) |->
                      IF IsAspectPrimitive(dom[i]) THEN StylePrimitive(dom[i], selectedLineKey)
                      ELSE dom[i]]
    IN  StyleGlyphsFrom(dimmed, 1, selectedEndpoints, SelectedAspectColor(dom, selectedLineKey))

\* the bound on the animation-frame callbacks that are pending at a time
MaxFrames == 2

\* target.closest(selector): the nearest of the target and its ancestors that fits,
\* as an index, or 0
RECURSIVE Closest(_, _, _)
Closest(dom, target, selector) ==
    IF target = 0 THEN 0
    ELSE IF \/ selector = "line" /\ dom[target].tag = "line"
            \/ selector = "[data-key^=aspect.]" /\ IsAspectPrimitive(dom[target])
    THEN target
    ELSE Closest(dom, dom[target].parent, selector)

\* the interactive element of a click on the target (1745-1752), or 0
Interactive(dom, target) ==
    LET aspectElement == Closest(dom, target, "[data-key^=aspect.]")
        line == Closest(dom, target, "line")
    IN  IF aspectElement # 0 /\ Truthy(getAttribute(dom[aspectElement], "data-key"))
        THEN aspectElement
        ELSE IF line # 0 /\ isInteractiveAspectLine(dom[line]) THEN line
        ELSE 0

\* the endpoints that a click on the interactive element selects (1769-1788), or Null
EndpointsOf(interactive) ==
    LET dataKey == getAttribute(interactive, "data-key")
        p1 == getAttribute(interactive, "data-p1")
        p2 == getAttribute(interactive, "data-p2")
        parts == IF Truthy(dataKey) THEN SplitAtDots(toLowerCase(dataKey[1])) ELSE <<>>
        fromKey == /\ ~Truthy(p1) \/ ~Truthy(p2)
                   /\ Truthy(dataKey)
                   /\ Len(parts) >= 4
                   /\ parts[1] = Chars("aspect")
        q1 == IF fromKey THEN Some(parts[2]) ELSE p1
        q2 == IF fromKey THEN Some(parts[4]) ELSE p2
    IN  IF Truthy(q1) /\ Truthy(q2) THEN Some([p1 |-> q1[1], p2 |-> q2[1]]) ELSE Null

\* The effects of the render after the state has changed (1139-1148): the styles of
\* the current selection are applied.  A render happens only if a state has changed;
\* endpoints that are set are a new object at every click.
AfterRender(key, endpoints) ==
    IF key # selectedAspectLineKey \/ endpoints # Null \/ selectedAspectEndpoints # Null
    THEN applyChartSelectionStyles(chartDom, key, endpoints)
    ELSE chartDom

onClickChart_noToggle(target) ==
    LET interactive == Interactive(chartDom, target)
        dataKey == getAttribute(chartDom[interactive], "data-key")
        key == IF Truthy(dataKey) THEN Chars("data:") \o toLowerCase(dataKey[1])
               ELSE getAspectLineKey(chartDom[interactive])
        isDeselect == FALSE
        nextLineKey == IF isDeselect THEN Null ELSE Some(key)
        endpoints == IF isDeselect THEN Null ELSE EndpointsOf(chartDom[interactive])
    IN  /\ pc' = "onClickChart"
        /\ UNCHANGED <<args, ret>>
        /\ IF interactive = 0
           THEN /\ selectedAspectLineKey' = Null
                /\ selectedAspectEndpoints' = Null
                /\ chartDom' = AfterRender(Null, Null)
                /\ UNCHANGED animationFrames
           ELSE /\ Len(animationFrames) < MaxFrames
                /\ selectedAspectLineKey' = nextLineKey
                /\ selectedAspectEndpoints' = endpoints
                /\ chartDom' = AfterRender(nextLineKey, endpoints)
                /\ animationFrames' = Append(animationFrames,
                                             [lineKey |-> nextLineKey, endpoints |-> endpoints])
        /\ UNCHANGED restOfView

\* onClick of the chart container (1744-1789) with the render that follows it; target
\* is the index of the element clicked, 0 for the background of the chart
onClickChart(target) ==
    LET interactive == Interactive(chartDom, target)
        dataKey == getAttribute(chartDom[interactive], "data-key")
        key == IF Truthy(dataKey) THEN Chars("data:") \o toLowerCase(dataKey[1])
               ELSE getAspectLineKey(chartDom[interactive])
        isDeselect == selectedAspectLineKey = Some(key)
        nextLineKey == IF isDeselect THEN Null ELSE Some(key)
        endpoints == IF isDeselect THEN Null ELSE EndpointsOf(chartDom[interactive])
    IN  /\ pc' = "onClickChart"
        /\ UNCHANGED <<args, ret>>
        /\ IF interactive = 0
           THEN /\ selectedAspectLineKey' = Null
                /\ selectedAspectEndpoints' = Null
                /\ chartDom' = AfterRender(Null, Null)
                /\ UNCHANGED animationFrames
           ELSE /\ Len(animationFrames) < MaxFrames
                /\ selectedAspectLineKey' = nextLineKey
                /\ selectedAspectEndpoints' = endpoints
                /\ chartDom' = AfterRender(nextLineKey, endpoints)
                /\ animationFrames' = Append(animationFrames,
                                             [lineKey |-> nextLineKey, endpoints |-> endpoints])
        /\ UNCHANGED restOfView

\* the callbacks from index i on, in order
RECURSIVE RunFrames(_, _, _)
RunFrames(dom, frames, i) ==
    IF i > Len(frames) THEN dom
    ELSE RunFrames(applyChartSelectionStyles(dom, frames[i].lineKey, frames[i].endpoints),
                   frames, i + 1)

\* an animation frame: every pending callback runs, in the order of the requests
animationFrame ==
    /\ animationFrames # <<>>
    /\ pc' = "animationFrame"
    /\ chartDom' = RunFrames(chartDom, animationFrames, 1)
    /\ animationFrames' = <<>>
    /\ UNCHANGED <<args, ret, selectedAspectLineKey, selectedAspectEndpoints>>
    /\ UNCHANGED restOfView

\* the pointer moves to another body of the chart: hoverPlanet changes, and the layout
\* effect (1145-1148) applies the styles of the selection again
onMouseMoveChart ==
    /\ selectedAspectLineKey # Null
    /\ pc' = "onMouseMoveChart"
    /\ chartDom' = applyChartSelectionStyles(chartDom, selectedAspectLineKey,
                                             selectedAspectEndpoints)
    /\ UNCHANGED <<args, ret, selectedAspectLineKey, selectedAspectEndpoints, animationFrames>>
    /\ UNCHANGED restOfView

\* an element of a chart image
Element(tag, parent, attrs, box) ==
    [tag |-> tag, parent |-> parent, attrs |-> attrs,
     style |-> [opacity |-> <<>>, strokeOpacity |-> <<>>], box |-> box]

NoAttributes == [n \in {} |-> <<>>]

\* attrs with the attribute added if the value is not Null
With(attrs, name, opt) ==
    IF opt = Null THEN attrs
    ELSE [n \in DOMAIN attrs \cup {name} |-> IF n = name THEN opt[1] ELSE attrs[n]]

\* The chart images of the model: two aspect lines with data-key (one with data-p1 and
\* data-p2, one whose endpoints are in the key only), an aspect line without data-key,
\* the glyphs of the Sun, the Moon and the node with their shapes, and a sign.
ChartSamples ==
    { <<Element("line", 0,
                With([n \in {"data-key", "stroke", "data-p1", "data-p2"} |->
                         CASE n = "data-key" -> Chars("aspect.sun.trine.moon")
                           [] n = "stroke" -> Chars("#0047ab")
                           [] n = "data-p1" -> Chars("sun")
                           [] n = "data-p2" -> Chars("moon")],
                     "opacity", opacity), Null),
        Element("line", 0,
                [n \in {"data-key", "stroke", "stroke-opacity"} |->
                    CASE n = "data-key" -> Chars("aspect.Moon.square.true_node")
                      [] n = "stroke" -> Chars("#c00000")
                      [] n = "stroke-opacity" -> Chars("0.5")], Null),
        Element("line", 0,
                [n \in {"x1", "y1", "x2", "y2", "stroke"} |->
                    CASE n = "x1" -> Chars("10")
                      [] n = "y1" -> Chars("20")
                      [] n = "x2" -> Chars("30")
                      [] n = "y2" -> Chars("40")
                      [] n = "stroke" -> Chars("#1a1a1a")], Null),
        Element("g", 0, With([n \in {"id"} |-> Chars("planet.sun")], "transform", transform),
                box),
        Element("path", 4, [n \in {"fill"} |-> Chars("#111111")], Null),
        Element("circle", 4,
                [n \in {"fill", "stroke", "opacity"} |->
                    CASE n = "fill" -> Chars("none")
                      [] n = "stroke" -> Chars("#222222")
                      [] n = "opacity" -> Chars("0.5")], Null),
        Element("g", 0, [n \in {"data-planet"} |-> Chars("Moon")], Some(<<400000, 125000>>)),
        Element("path", 7, NoAttributes, Null),
        Element("g", 0, [n \in {"data-body", "transform"} |->
                            CASE n = "data-body" -> <<84, 114, 117, 101, 32, 78, 111, 100, 101>>
                              [] n = "transform" -> Chars("rotate(10)")],
                Some(<<0, -305000>>)),
        Element("path", 9, [n \in {"fill", "stroke"} |->
                               CASE n = "fill" -> Chars("None")
                                 [] n = "stroke" -> Chars("#222222")], Null),
        Element("g", 0, [n \in {"id"} |-> Chars("sign-aries")], Null),
        Element("path", 11, [n \in {"fill"} |-> Chars("#111111")], Null)>> :
      opacity \in {Null, Some(Chars("0.8"))},
      transform \in {Null, Some(Chars("rotate(10)"))},
      box \in {Null, Some(<<100000, 200000>>)} }

\* The chart after the chart image has been put under the container (928-932) and the
\* effect of the first render with it has run (1139-1141); args.chart is the image.
InitChart ==
    /\ pc = "chart"
    /\ \E chart \in ChartSamples :
           /\ args = [chart |-> chart]
           /\ chartDom = applyChartSelectionStyles(chart, Null, Null)
    /\ ret = Null
    /\ selectedAspectLineKey = Null
    /\ selectedAspectEndpoints = Null
    /\ animationFrames = <<>>
    /\ InitHighlightStore
    /\ InitReportPageClient
    /\ InitCityAutocomplete

NextChart ==
    \/ \E target \in 0..Len(chartDom) : onClickChart(target)
    \/ animationFrame
    \/ onMouseMoveChart

SpecChart == InitChart /\ [][NextChart]_vars

\* the attributes that the overlay can set on an element
OverlayAttributes == {"opacity", "stroke-opacity", "transform", "fill", "stroke"}

\* element i has the value of the chart image for each of the attributes
HasOriginal(i, names) ==
    \A name \in names : getAttribute(chartDom[i], name) = getAttribute(args.chart[i], name)

\* the glyphs of the chart: the elements of the chart image that name a body
Glyphs == { e \in 1..Len(chartDom) : IsPlanetElement(args.chart[e]) }

\* the elements of glyph e: the element and the elements below it
ShapesOf(e) == { j \in 1..Len(chartDom) : IsWithin(args.chart, j, e) }

\* the token of glyph e is one of the selected endpoints
IsEndpoint(e) ==
    /\ selectedAspectEndpoints # Null
    /\ normalizeAspectEndpointToken(extractPlanetTokenFromElement(args.chart[e])[1])
           \in {normalizeAspectEndpointToken(selectedAspectEndpoints[1].p1),
                normalizeAspectEndpointToken(selectedAspectEndpoints[1].p2)}

\* the stroke colour of the selected line in the chart image
SelectedStroke ==
    LET lines == { i \in 1..Len(chartDom) :
                     /\ IsAspectPrimitive(args.chart[i])
                     /\ Some(PrimitiveKey(args.chart[i])) = selectedAspectLineKey }
    IN  args.chart[CHOOSE i \in lines : TRUE].attrs["stroke"]

\* a colour attribute of the chart image that is present and not "none"
IsPainted(i, name) ==
    /\ hasAttribute(args.chart[i], name)
    /\ toLowerCase(args.chart[i].attrs[name]) # Chars("none")

\* glyph e is emphasized: scaled about its centre after its original transform (left
\* as it is where no bounding box is to be had), its painted shapes in the colour
\* of the selected line, fully opaque
IsEmphasized(e) ==
    /\ IF args.chart[e].box = Null THEN HasOriginal(e, {"transform"})
       ELSE getAttribute(chartDom[e], "transform")
                = Some(ScaledTransform(OrEmpty(getAttribute(args.chart[e], "transform")),
                                       args.chart[e].box[1]))
    /\ \A j \in ShapesOf(e) :
           /\ \A name \in {"fill", "stroke"} :
                  IF IsPainted(j, name)
                  THEN getAttribute(chartDom[j], name) = Some(SelectedStroke)
                  ELSE HasOriginal(j, {name})
           /\ getAttribute(chartDom[j], "opacity") = Some(Chars("1"))
           /\ getAttribute(chartDom[j], "stroke-opacity") = Some(Chars("1"))
           /\ j # e => HasOriginal(j, {"transform"})

\* C17: while an aspect with line key K is selected, every aspect primitive whose key
\* differs from K has opacity and stroke-opacity 0.04, the primitive with key K has its
\* original opacity and stroke-opacity, exactly the glyphs whose normalized token is
\* one of the two selected endpoints are emphasized, and every shape of every other
\* glyph has its original attributes.
C17_SelectionEmphasis ==
    selectedAspectLineKey # Null =>
        /\ \A i \in 1..Len(chartDom) :
               IsAspectPrimitive(args.chart[i]) =>
                   IF Some(PrimitiveKey(args.chart[i])) = selectedAspectLineKey
                   THEN HasOriginal(i, {"opacity", "stroke-opacity"})
                   ELSE /\ getAttribute(chartDom[i], "opacity") = Some(Chars("0.04"))
                        /\ getAttribute(chartDom[i], "stroke-opacity") = Some(Chars("0.04"))
        /\ \A e \in Glyphs :
               IF IsEndpoint(e) THEN IsEmphasized(e)
               ELSE \A j \in ShapesOf(e) : HasOriginal(j, OverlayAttributes)

\* The trine of the Sun and the Moon is selected after the square was: the square is
\* dimmed, the glyph of the Sun is scaled and painted in the colour of the trine, the
\* glyph of the node is as in the chart image.
C17_Witness ==
    /\ pc = "animationFrame"
    /\ selectedAspectLineKey = Some(Chars("data:aspect.sun.trine.moon"))
    /\ selectedAspectEndpoints = Some([p1 |-> Chars("sun"), p2 |-> Chars("moon")])
    /\ getAttribute(chartDom[2], "opacity") = Some(Chars("0.04"))
    /\ hasAttribute(chartDom[9], "data-original-fill")
    /\ args.chart[4].box # Null
    /\ hasAttribute(args.chart[4], "transform")
    /\ getAttribute(chartDom[5], "fill") = Some(Chars("#0047ab"))
    /\ getAttribute(chartDom[4], "transform") # getAttribute(args.chart[4], "transform")

\* C18: when no aspect is selected and no callback is pending, every attribute that
\* the overlay can set has, on every element, the value it has in the chart image
\* (an attribute that the image has not is absent).
C18_SelectionReversion ==
    selectedAspectLineKey = Null /\ animationFrames = <<>> =>
        \A i \in 1..Len(chartDom) : HasOriginal(i, OverlayAttributes)

----------------------------------------------------------------------------
(* The render of the highlights: report-view.tsx 1169-1237.                *)
(*                                                                         *)
(* The content root is the sequence of its text nodes in document order.   *)
(* A text node is [block, from, to, marks]: block is the element of the    *)
(* report that holds it (a block holds text nodes and marker spans only),  *)
(* from and to are the offsets of its first character and past its last    *)
(* one in the flattened text of the root, marks are the ids of the marker  *)
(* spans around it, the outermost first.                                   *)

TextNode(block, from, to, marks) ==
    [block |-> block, from |-> from, to |-> to, marks |-> marks]

\* The first loop (1173-1182): every marker span is replaced by its children and its
\* parent is normalized, which joins the adjacent text nodes below the parent and
\* removes the empty ones.  A block without a marker span is left as it is.
StripMarkers(nodes) ==
    LET marked == { nodes[i].block : i \in { j \in 1..Len(nodes) : nodes[j].marks # <<>> } }
        \* the node stays: outside a marked block, or the first node of the block that
        \* is not empty
        Stays(i) ==
            \/ nodes[i].block \notin marked
            \/ /\ nodes[i].to > nodes[i].from
               /\ \A j \in 1..(i - 1) :
                      nodes[j].block = nodes[i].block => nodes[j].to = nodes[j].from
        LastOf(block) ==
            CHOOSE i \in 1..Len(nodes) :
                /\ nodes[i].block = block
                /\ \A j \in (i + 1)..Len(nodes) : nodes[j].block # block
        Joined(i) ==
            IF nodes[i].block \notin marked THEN nodes[i]
            ELSE TextNode(nodes[i].block, nodes[i].from, nodes[LastOf(nodes[i].block)].to, <<>>)
    IN  Concat([i \in 1..Len(nodes) |-> IF Stays(i) THEN <<Joined(i)>> ELSE <<>>])

\* [...highlights].sort((a, b) => a.start - b.start): a stable sort
RECURSIVE SortByStart(_)
SortByStart(items) ==
    IF items = <<>> THEN <<>>
    ELSE LET first == CHOOSE i \in 1..Len(items) :
                          /\ \A j \in 1..Len(items) : items[i].start <= items[j].start
                          /\ \A j \in 1..(i - 1) : items[j].start # items[i].start
         IN  <<items[first]>>
                 \o SortByStart([k \in 1..(Len(items) - 1) |->
                                    IF k < first THEN items[k] ELSE items[k + 1]])

\* The walk of a highlight over the text nodes (1197-1235), from the node at index i
\* with currentOffset.  The walker is live: its current node is the text node it
\* returned, which after splitText holds the text before the segment, so that
\* nextNode() returns the node that follows that one in the changed document.
RECURSIVE WalkHighlight(_, _, _, _)
WalkHighlight(nodes, highlight, i, currentOffset) ==
    IF i > Len(nodes) THEN nodes
    ELSE LET node == nodes[i]
             len == node.to - node.from
             nextOffset == currentOffset + len
             overlapStart == Max(highlight.start, currentOffset)
             overlapEnd == Min(highlight.end, nextOffset)
             localStart == overlapStart - currentOffset
             localEnd == overlapEnd - currentOffset
             before == IF localStart > 0
                       THEN <<TextNode(node.block, node.from, node.from + localStart,
                                       node.marks)>>
                       ELSE <<>>
             segment == TextNode(node.block, node.from + localStart, node.from + localEnd,
                                 Append(node.marks, highlight.id))
             after == IF localEnd < len
                      THEN <<TextNode(node.block, node.from + localEnd, node.to, node.marks)>>
                      ELSE <<>>
         IN  IF overlapEnd > overlapStart /\ len > 0
             THEN WalkHighlight(SubSeq(nodes, 1, i - 1) \o before \o <<segment>> \o after
                                    \o SubSeq(nodes, i + 1, Len(nodes)),
                                highlight, i + 1, nextOffset)
             ELSE WalkHighlight(nodes, highlight, i + 1, nextOffset)

\* the loop over sortedHighlights (1190-1236), from index k
RECURSIVE InsertMarkers(_, _, _)
InsertMarkers(nodes, sortedHighlights, k) ==
    IF k > Len(sortedHighlights) THEN nodes
    ELSE IF sortedHighlights[k].end <= sortedHighlights[k].start
    THEN InsertMarkers(nodes, sortedHighlights, k + 1)
    ELSE InsertMarkers(WalkHighlight(nodes, sortedHighlights[k], 1, 0),
                       sortedHighlights, k + 1)

\* the layout effect on [highlights]
renderHighlights(nodes, items) ==
    InsertMarkers(StripMarkers(nodes), SortByStart(items), 1)

\* The content roots of the model before a highlight is rendered: one text node; two
\* blocks; two adjacent text nodes in a block; three blocks; a block with an empty
\* text node between two blocks.
BaselineSamples ==
    { <<TextNode(1, 0, 8, <<>>)>>,
      <<TextNode(1, 0, 4, <<>>), TextNode(2, 4, 8, <<>>)>>,
      <<TextNode(1, 0, 3, <<>>), TextNode(1, 3, 8, <<>>)>>,
      <<TextNode(1, 0, 3, <<>>), TextNode(2, 3, 5, <<>>), TextNode(3, 5, 8, <<>>)>>,
      <<TextNode(1, 0, 4, <<>>), TextNode(2, 4, 4, <<>>), TextNode(3, 4, 8, <<>>)>> }

\* the offsets at which the ranges of the model start and end; 10 is past the text
RenderOffsets == {0, 2, 4, 6, 8, 10}

\* the stored ranges of the model: one range, or two that share no character, in
\* either order
RangeSamples ==
    { [id |-> id, start |-> start, end |-> end, color |-> HIGHLIGHT_COLORS[1]] :
          id \in {"h1", "h2"}, start \in RenderOffsets, end \in RenderOffsets }

HighlightSetSamples ==
    {<<>>}
        \cup { <<a>> : a \in { r \in RangeSamples : r.id = "h1" /\ r.start < r.end } }
        \cup { <<a, b>> : a \in { r \in RangeSamples : r.id = "h1" /\ r.start < r.end },
                          b \in { r \in RangeSamples : r.id = "h2" /\ r.start < r.end } }

\* The content root as rendered by React, no highlight stored: ret is the root,
\* args the highlights of the last render.
InitRender ==
    /\ pc = "mounted"
    /\ args = <<>>
    /\ ret \in BaselineSamples
    /\ InitReportView

\* the highlights change to items, and the layout effect runs
setHighlights(items) ==
    /\ pc \in {"mounted", "renderHighlights"}
    /\ items # args
    /\ ~\E i, j \in 1..Len(items) : i < j /\ Overlaps(items[i].start, items[i].end, items[j])
    /\ pc' = "renderHighlights"
    /\ args' = items
    /\ ret' = renderHighlights(ret, items)
    /\ PureFrame

NextRender == \E items \in HighlightSetSamples : setHighlights(items)

SpecRender == InitRender /\ [][NextRender]_vars

\* the length of the flattened text of the content root
TextLength == IF ret = <<>> THEN 0 ELSE ret[Len(ret)].to

\* the offsets of the characters that lie in a marker span with this id
WrappedBy(id) ==
    UNION { ret[i].from..(ret[i].to - 1) :
                i \in { j \in 1..Len(ret) : \E m \in 1..Len(ret[j].marks) : ret[j].marks[m] = id } }

\* C19: after a render pass, the characters that lie in marker spans with the id of a
\* stored range are the characters at the offsets start .. end - 1 of the flattened
\* text (clipped to its length), no character outside a stored range lies in a
\* marker span, and no character lies in two marker spans.
C19_MarkersCoverRanges ==
    pc = "renderHighlights" =>
        /\ \A k \in 1..Len(args) :
               WrappedBy(args[k].id)
                   = { c \in 0..(TextLength - 1) : args[k].start <= c /\ c < args[k].end }
        /\ \A i \in 1..Len(ret) :
               /\ Len(ret[i].marks) <= 1
               /\ \A m \in 1..Len(ret[i].marks) :
                      \E k \in 1..Len(args) : args[k].id = ret[i].marks[m]

----------------------------------------------------------------------------
(* geoSearchResponseSchema on the bodies that the upstream search may      *)
(* answer with: cities with and without country_code and country, and a    *)
(* count that is missing, a natural number, negative or fractional.        *)

MaxCities == 2

JNull == [t |-> "null", v |-> 0]

\* country_code of an upstream city: missing, "", "FR", null
CountryCodeSamples == {<<>>, <<JString(<<>>)>>, <<JString(<<70, 82>>)>>, <<JNull>>}

\* country of an upstream city: missing, "", "Fr"
CountrySamples == {<<>>, <<JString(<<>>)>>, <<JString(<<70, 114>>)>>}

\* the members of a key that may be missing
MemberIf(word, opt) == IF opt = <<>> THEN <<>> ELSE <<Member(word, opt[1])>>

UpstreamCitySamples ==
    { JObject(<<Member("name", JString(<<80, 97, 114, 105, 115>>))>>
              \o MemberIf("country_code", code)
              \o MemberIf("country", country)
              \o << Member("lat", JNumber(488534)), Member("lng", JNumber(23488)),
                    Member("timezone", JString(<<85, 84, 67>>)) >>) :
          code \in CountryCodeSamples, country \in CountrySamples }

\* count of an upstream body: missing, 0, 1, 7, -1, 1.5
CountSamples ==
    {<<>>, <<JNumber(0)>>, <<JNumber(10000)>>, <<JNumber(70000)>>, <<JNumber(-10000)>>,
     <<JNumber(15000)>>}

RECURSIVE SeqsUpTo(_, _)
\* the sequences of at most n elements of a set
SeqsUpTo(set, n) ==
    IF n = 0 THEN {<<>>}
    ELSE SeqsUpTo(set, n - 1)
             \cup { Append(seq, x) : seq \in { s \in SeqsUpTo(set, n - 1) : Len(s) = n - 1 },
                                     x \in set }

GeoBodySamples ==
    { JObject(<<Member("results", JArray(cities))>> \o MemberIf("count", count)) :
          cities \in SeqsUpTo(UpstreamCitySamples, MaxCities), count \in CountSamples }

InitGeoResponse ==
    /\ pc = "geo"
    /\ args \in GeoBodySamples
    /\ ret = Null
    /\ InitReportView

CallGeoSearchResponseSchema ==
    /\ pc = "geo"
    /\ pc' = "geoSearchResponseSchema"
    /\ ret' = geoSearchResponseSchema(<<args>>)
    /\ UNCHANGED args
    /\ PureFrame

NextGeoResponse == CallGeoSearchResponseSchema

SpecGeoResponse == InitGeoResponse /\ [][NextGeoResponse]_vars

\* the cities of the upstream body, and of what the schema gave
UpstreamCities == Lookup(args, "results")[1].v

ParsedCities == Lookup(ret.data, "results")[1].v

\* country_code of the upstream city when present, otherwise its country, otherwise ""
ExpectedCountryCode(city) ==
    IF Lookup(city, "country_code") # <<>> THEN Lookup(city, "country_code")[1]
    ELSE IF Lookup(city, "country") # <<>> THEN Lookup(city, "country")[1]
    ELSE JString(<<>>)

\* C21: every parsed city has the country_code of the upstream city when present,
\* otherwise its country, otherwise the empty string; the parsed count is the
\* upstream count when present and otherwise the number of results
C21_GeoNormalization ==
    pc = "geoSearchResponseSchema" /\ ret.success =>
        /\ Len(ParsedCities) = Len(UpstreamCities)
        /\ \A i \in 1..Len(UpstreamCities) :
               Lookup(ParsedCities[i], "country_code")
                   = <<ExpectedCountryCode(UpstreamCities[i])>>
        /\ Lookup(ret.data, "count")
               = (IF Lookup(args, "count") # <<>> THEN Lookup(args, "count")
                  ELSE <<JNumber(Len(UpstreamCities) * 10000)>>)

\* two cities parsed, the first with a country and no country_code, and no count
C21_Witness ==
    /\ pc = "geoSearchResponseSchema" /\ ret.success
    /\ Len(UpstreamCities) = 2
    /\ Lookup(UpstreamCities[1], "country_code") = <<>>
    /\ Lookup(UpstreamCities[1], "country") = <<JString(<<70, 114>>)>>
    /\ Lookup(ParsedCities[1], "country_code") = <<JString(<<70, 114>>)>>
    /\ Lookup(args, "count") = <<>>
    /\ Lookup(ret.data, "count") = <<JNumber(20000)>>

----------------------------------------------------------------------------
(* buildNatalRequestFromForm (lib/natal-request) on the values of the      *)
(* birth form: birthDate is four digits, two digits, two digits with       *)
(* hyphens, birthTime two digits and two digits with a colon               *)
(* (birthFormSchema); the name is any text or undefined.                   *)

\* String.prototype.split with a separator of one character
StringSplit(str, sep) ==
    LET cuts == <<0>> \o SelectSeq([i \in 1..Len(str) |-> i], LAMBDA i : str[i] = sep)
                      \o <<Len(str) + 1>>
    IN  [k \in 1..(Len(cuts) - 1) |-> SubSeq(str, cuts[k] + 1, cuts[k + 1] - 1)]

NaN == <<"NaN">>

\* const [a, b, c] = parts.map(Number): the k-th element, undefined past the end
NumberAt(parts, k) ==
    IF k > Len(parts) THEN Undefined
    ELSE IF NumberCoerce(parts[k]).nan THEN NaN
    ELSE NumberCoerce(parts[k]).v

INCLUDE_FEATURES ==
    <<Chars("asc"), Chars("mc"), Chars("chiron"), Chars("lilith"), Chars("true_node"),
      Chars("mean_node")>>

buildNatalRequestFromForm_untrimmedName(form) ==
    LET date == StringSplit(form.birthDate, 45)
        time == StringSplit(form.birthTime, 58)
        normalizedName == IF form.name # Undefined /\ StringTrim(form.name[1]) # <<>>
                          THEN Some(form.name[1]) ELSE Undefined
    IN  [name |-> normalizedName,
         year |-> NumberAt(date, 1), month |-> NumberAt(date, 2), day |-> NumberAt(date, 3),
         hour |-> NumberAt(time, 1), minute |-> NumberAt(time, 2),
         city |-> form.citySelection.name, lat |-> form.citySelection.lat,
         lng |-> form.citySelection.lng, tz_str |-> form.citySelection.timezone,
         house_system |-> Chars("placidus"), zodiac_type |-> Chars("tropical"),
         interpretation |-> [enable |-> TRUE, style |-> Chars("improved"),
                             language |-> Undefined],
         include_features |-> INCLUDE_FEATURES,
         include_speed |-> TRUE, include_dominants |-> TRUE]

buildNatalRequestFromForm(form) ==
    LET date == StringSplit(form.birthDate, 45)
        time == StringSplit(form.birthTime, 58)
        normalizedName == IF form.name # Undefined /\ StringTrim(form.name[1]) # <<>>
                          THEN Some(StringTrim(form.name[1])) ELSE Undefined
    IN  [name |-> normalizedName,
         year |-> NumberAt(date, 1), month |-> NumberAt(date, 2), day |-> NumberAt(date, 3),
         hour |-> NumberAt(time, 1), minute |-> NumberAt(time, 2),
         city |-> form.citySelection.name, lat |-> form.citySelection.lat,
         lng |-> form.citySelection.lng, tz_str |-> form.citySelection.timezone,
         house_system |-> Chars("placidus"), zodiac_type |-> Chars("tropical"),
         interpretation |-> [enable |-> TRUE, style |-> Chars("improved"),
                             language |-> Undefined],
         include_features |-> INCLUDE_FEATURES,
         include_speed |-> TRUE, include_dominants |-> TRUE]

\* four digits: 0000, 1879, 2024, 9999
YearTexts == {<<48, 48, 48, 48>>, <<49, 56, 55, 57>>, <<50, 48, 50, 52>>, <<57, 57, 57, 57>>}

\* two digits: 00, 03, 12, 30, 59, 99
TwoDigitTexts == {<<48, 48>>, <<48, 51>>, <<49, 50>>, <<51, 48>>, <<53, 57>>, <<57, 57>>}

BirthDateSamples ==
    { y \o <<45>> \o m \o <<45>> \o d :
          y \in YearTexts, m \in TwoDigitTexts, d \in {<<48, 49>>, <<49, 52>>, <<51, 49>>} }

BirthTimeSamples ==
    { h \o <<58>> \o m : h \in {<<48, 48>>, <<49, 49>>, <<50, 51>>}, m \in TwoDigitTexts }

\* the name of the form: undefined, "", "  ", " Al ", "Al", "A l"
FormNameSamples ==
    {Undefined, Some(<<>>), Some(<<32, 32>>), Some(<<32, 65, 108, 32>>), Some(<<65, 108>>),
     Some(<<65, 32, 108>>)}

\* the cities that the autocomplete may hand over (Ulm, Lima)
CitySelectionSamples ==
    { [name |-> <<85, 108, 109>>, country_code |-> <<68, 69>>, lat |-> 484011,
       lng |-> 99876, timezone |-> <<69, 117, 114, 111, 112, 101, 47, 66, 101, 114, 108,
                                     105, 110>>],
      [name |-> <<76, 105, 109, 97>>, country_code |-> <<>>, lat |-> -120464,
       lng |-> -770428, timezone |-> <<85, 84, 67>>] }

InitForm ==
    /\ pc = "form"
    /\ args \in [name : FormNameSamples, birthDate : BirthDateSamples,
                 birthTime : BirthTimeSamples, citySelection : CitySelectionSamples]
    /\ ret = Null
    /\ InitReportView

CallBuildNatalRequestFromForm ==
    /\ pc = "form"
    /\ pc' = "buildNatalRequestFromForm"
    /\ ret' = buildNatalRequestFromForm(args)
    /\ UNCHANGED args
    /\ PureFrame

NextForm == CallBuildNatalRequestFromForm

SpecForm == InitForm /\ [][NextForm]_vars

\* the number that the digits at the places a..b of a text write, in ten-thousandths
DigitsAt(text, a, b) == DigitsValue(text, a, b) * 10000

\* a name that is undefined or holds white space only
IsBlankName(name) ==
    name = Undefined \/ \A i \in 1..Len(name[1]) : IsTrimWhitespace(name[1][i])

\* C22: year, month and day are the three numeric components of birthDate, hour and
\* minute the two of birthTime; city, lat, lng and tz_str are those of the selected
\* city; name is the trimmed name, or left out when blank; the other fields are fixed
C22_FormMapping ==
    pc = "buildNatalRequestFromForm" =>
        /\ ret.year = DigitsAt(args.birthDate, 1, 4)
        /\ ret.month = DigitsAt(args.birthDate, 6, 7)
        /\ ret.day = DigitsAt(args.birthDate, 9, 10)
        /\ ret.hour = DigitsAt(args.birthTime, 1, 2)
        /\ ret.minute = DigitsAt(args.birthTime, 4, 5)
        /\ ret.city = args.citySelection.name
        /\ ret.lat = args.citySelection.lat
        /\ ret.lng = args.citySelection.lng
        /\ ret.tz_str = args.citySelection.timezone
        /\ IF IsBlankName(args.name) THEN ret.name = Undefined
           ELSE ret.name # Undefined /\ IsTrimOf(ret.name[1], args.name[1])
        /\ ret.house_system = Chars("placidus")
        /\ ret.zodiac_type = Chars("tropical")
        /\ ret.include_features = <<Chars("asc"), Chars("mc"), Chars("chiron"),
                                    Chars("lilith"), Chars("true_node"), Chars("mean_node")>>
        /\ ret.include_speed = TRUE
        /\ ret.include_dominants = TRUE

\* the form of 1879-03-14, 11:30, Ulm, with the name " Al "
C22_Witness ==
    /\ pc = "buildNatalRequestFromForm"
    /\ args.birthDate = <<49, 56, 55, 57, 45, 48, 51, 45, 49, 52>>
    /\ args.birthTime = <<49, 49, 58, 51, 48>>
    /\ args.name = Some(<<32, 65, 108, 32>>)
    /\ args.citySelection.name = <<85, 108, 109>>
    /\ ret.year = 18790000 /\ ret.month = 30000 /\ ret.day = 140000
    /\ ret.hour = 110000 /\ ret.minute = 300000
    /\ ret.name = Some(<<65, 108>>)
    /\ ret.lat = 484011

----------------------------------------------------------------------------
(* The highlight layout effect run again.  highlights is read from the      *)
(* storage on every render of the report view, so its array is a new one   *)
(* each time and the effect, which depends on [highlights], runs after     *)
(* every render of the view, also when the stored ranges are the same.     *)

\* a render of the report view that leaves the stored ranges as they are
rerender ==
    /\ pc = "renderHighlights"
    /\ pc' = pc
    /\ args' = args
    /\ ret' = renderHighlights(ret, args)
    /\ PureFrame

NextRerender ==
    \/ \E items \in HighlightSetSamples : setHighlights(items)
    \/ rerender

SpecRerender == InitRender /\ [][NextRerender]_vars

\* the marker spans around each character of a content root, outermost first
MarkerStructure(nodes) ==
    [ c \in 0..(TextLength - 1) |->
        LET holders == SelectSeq(nodes, LAMBDA node : node.from <= c /\ c < node.to)
        IN  IF holders = <<>> THEN <<>> ELSE holders[1].marks ]

\* no text node of a content root lies in a marker span
Unmarked(nodes) == \A i \in 1..Len(nodes) : nodes[i].marks = <<>>

\* the text nodes of a content root hold the characters 0 .. TextLength - 1 in order
FlattenedTextKept(nodes) ==
    /\ nodes # <<>>
    /\ nodes[1].from = 0
    /\ nodes[Len(nodes)].to = TextLength
    /\ \A i \in 1..(Len(nodes) - 1) : nodes[i].to = nodes[i + 1].from

\* C23, first part: the strip at the head of a render pass leaves no marker span
\* and the flattened text as it was.
C23_StripRemovesMarkers ==
    pc = "renderHighlights" =>
        /\ Unmarked(StripMarkers(ret))
        /\ FlattenedTextKept(StripMarkers(ret))

\* C23, last part: no render pass changes the flattened text of the content root.
C23_TextKept == FlattenedTextKept(ret)

\* C23: after a render pass, one more pass with the same stored ranges leaves every
\* character in the marker spans it was in, no marker span lies inside another
\* one, and the flattened text is the one before the pass.
C23_RerenderStable ==
    pc = "renderHighlights" =>
        /\ MarkerStructure(renderHighlights(ret, args)) = MarkerStructure(ret)
        /\ \A i \in 1..Len(ret) : Len(ret[i].marks) <= 1
        /\ FlattenedTextKept(ret)

\* C23 without the nesting: a second pass gives the marker spans of the first
C23_SameMarkers ==
    pc = "renderHighlights" =>
        MarkerStructure(renderHighlights(ret, args)) = MarkerStructure(ret)

\* C23 without the repetition: no marker span lies inside another one
C23_NoNesting == \A i \in 1..Len(ret) : Len(ret[i].marks) <= 1

----------------------------------------------------------------------------
(* The records of the original values on the elements of the chart.        *)

\* what a capture records of attribute name of element i of the chart image
ImageValue(i, name) ==
    IF getAttribute(args.chart[i], name) = Null THEN Chars("__none__")
    ELSE args.chart[i].attrs[name]

\* attribute name of element i is not as in the chart image
IsMutated(i, name) == getAttribute(chartDom[i], name) # getAttribute(args.chart[i], name)

\* every record that is on an element holds the value of the chart image, and every
\* attribute that is not as in the chart image has its record
RecordsAreOriginal ==
    \A i \in 1..Len(chartDom) : \A name \in OverlayAttributes :
        /\ hasAttribute(chartDom[i], OriginalOf(name)) =>
               chartDom[i].attrs[OriginalOf(name)] = ImageValue(i, name)
        /\ IsMutated(i, name) => hasAttribute(chartDom[i], OriginalOf(name))

\* a record that is on an element stays, with its value
RecordsKept ==
    \A i \in 1..Len(chartDom) : \A name \in OverlayAttributes :
        hasAttribute(chartDom[i], OriginalOf(name)) =>
            /\ hasAttribute(chartDom'[i], OriginalOf(name))
            /\ chartDom'[i].attrs[OriginalOf(name)] = chartDom[i].attrs[OriginalOf(name)]

\* C24: a data-original-* attribute of an element, once written, keeps its value in
\* every later step; its value is the value that the attribute has in the chart image
\* ("__none__" for an attribute that the image has not), and no attribute that the
\* overlay can set differs from the chart image without its record.
C24_CaptureOnce == []RecordsAreOriginal /\ [][RecordsKept]_vars

\* The square is selected after the trine was and the callbacks have run: the trine
\* is dimmed and its record still holds the opacity 0.8 of the chart image; the glyph
\* of the Sun, emphasized before, is back at its transform, which its record holds.
C24_Witness ==
    /\ pc = "animationFrame"
    /\ selectedAspectLineKey = Some(PrimitiveKey(args.chart[2]))
    /\ getAttribute(chartDom[1], "opacity") = Some(Chars("0.04"))
    /\ getAttribute(chartDom[1], "data-original-opacity") = Some(Chars("0.8"))
    /\ getAttribute(chartDom[2], "data-original-opacity") = Some(Chars("__none__"))
    /\ getAttribute(chartDom[4], "data-original-transform") = Some(Chars("rotate(10)"))
    /\ getAttribute(chartDom[6], "data-original-fill") = getAttribute(args.chart[6], "fill")
    /\ getAttribute(chartDom[7], "transform") # Null

----------------------------------------------------------------------------
(* The styles of the chart when no animation-frame callback is pending.    *)

\* the aspect primitives are styled for the line key: the one with the key as in the
\* chart image, every other one at 0.04
DimmedFor(lineKey) ==
    \A i \in 1..Len(chartDom) :
        IsAspectPrimitive(args.chart[i]) =>
            IF Some(PrimitiveKey(args.chart[i])) = lineKey
            THEN HasOriginal(i, {"opacity", "stroke-opacity"})
            ELSE /\ getAttribute(chartDom[i], "opacity") = Some(Chars("0.04"))
                 /\ getAttribute(chartDom[i], "stroke-opacity") = Some(Chars("0.04"))

\* the glyphs of the selected endpoints are emphasized, the other ones are as in the
\* chart image
EmphasisOfSelection ==
    \A e \in Glyphs :
        IF IsEndpoint(e) THEN IsEmphasized(e)
        ELSE \A j \in ShapesOf(e) : HasOriginal(j, OverlayAttributes)

\* the chart is as in the chart image
Undimmed == \A i \in 1..Len(chartDom) : HasOriginal(i, OverlayAttributes)

\* C25, the part with a selection: with no callback pending and an aspect selected,
\* the dimming and the emphasis are the ones of the selected aspect.
C25_SelectedIsStyled ==
    animationFrames = <<>> /\ selectedAspectLineKey # Null =>
        DimmedFor(selectedAspectLineKey) /\ EmphasisOfSelection

\* C25: whenever no animation-frame callback is pending, the dimming and the glyph
\* emphasis of the chart are the ones of the selected aspect, and the chart is as in
\* the chart image when no aspect is selected.
C25_VisualFollowsSelection ==
    animationFrames = <<>> =>
        IF selectedAspectLineKey # Null
        THEN DimmedFor(selectedAspectLineKey) /\ EmphasisOfSelection
        ELSE Undimmed

----------------------------------------------------------------------------
(* The city field with the clock: now is the clock in milliseconds, args   *)
(* is the instant of the last change of the query, ret is the instant at   *)
(* which the pending timer of the search effect is due.                    *)

SEARCH_DELAY_MS == 300

ClockStep == 150

\* the bound on the clock, in steps
MaxClock == 4

\* what the user types or pastes: "", "p", "pa", "pa ", "Pau, FR"
TypedSamples ==
    { <<>>, <<112>>, <<112, 97>>, <<112, 97, 32>>, <<80, 97, 117, 44, 32, 70, 82>> }

\* setTimeout(callback, 300) of the search effect, when the effect has set a timer
DueOf(state, instant) ==
    IF state.timer = Null THEN Null ELSE Some(instant + SEARCH_DELAY_MS)

InitDebounce ==
    /\ pc = "city"
    /\ args = 0
    /\ ret = Null
    /\ InitReportView

\* time passes
clockAdvances ==
    /\ now < MaxClock * ClockStep
    /\ now' = now + ClockStep
    /\ UNCHANGED <<pc, args, ret, cityField, searches, page, runs, requests>>
    /\ UNCHANGED <<highlightVars, chartVars>>

\* onChange of the input at the instant now, and the search effect of the render
onChangeAt(next) ==
    /\ next # cityField.query
    /\ cityField' = SearchEffect([cityField EXCEPT !.query = next,
                                                  !.open = Len(StringTrim(next)) >= 2,
                                                  !.selectedCity = Null])
    /\ args' = now
    /\ ret' = DueOf(cityField', now)
    /\ UNCHANGED <<pc, searches, pageVars, highlightVars, chartVars>>

\* onClick of a result at the instant now; the search effect runs if the query is
\* another one, and a timer that is pending stays if it does not run
onSelectCityAt(place) ==
    /\ cityField.open /\ ~cityField.loading /\ cityField.error = Null
    /\ \E i \in 1..Len(cityField.results) : cityField.results[i] = place
    /\ LET clicked == [cityField EXCEPT !.skipNextSearchRef = TRUE,
                                        !.selectedCity = Some(place),
                                        !.query = CityLabel(place),
                                        !.open = FALSE]
       IN  IF clicked.query # cityField.query
           THEN /\ cityField' = SearchEffect(clicked)
                /\ args' = now
                /\ ret' = DueOf(cityField', now)
           ELSE /\ cityField' = clicked
                /\ UNCHANGED <<args, ret>>
    /\ UNCHANGED <<pc, searches, pageVars, highlightVars, chartVars>>

\* the timer fires, at its due instant or later
timerFiresAt ==
    /\ cityField.timer # Null
    /\ now >= ret[1]
    /\ Len(searches) < MaxSearches
    /\ cityField' = [cityField EXCEPT !.loading = TRUE, !.error = Null, !.timer = Null]
    /\ searches' = Append(searches, [q |-> StringTrim(cityField.timer[1]), pc |-> "fetch"])
    /\ ret' = Null
    /\ UNCHANGED <<pc, args, pageVars, highlightVars, chartVars>>

NextDebounce ==
    \/ clockAdvances
    \/ \E next \in TypedSamples : onChangeAt(next)
    \/ \E i \in 1..Len(Gazetteer) : onSelectCityAt(Gazetteer[i])
    \/ timerFiresAt
    \/ \E i \in 1..Len(searches), outcome \in SearchOutcomes : searchSettles(i, outcome)

SpecDebounce == InitDebounce /\ [][NextDebounce]_vars

\* a step that issues a search request
IssuesRequest == Len(searches') = Len(searches) + 1

\* a step that changes the query
ChangesQuery == cityField'.query # cityField.query

\* C26, the requests: a request is issued for the trimmed query of the field, which
\* has at least 2 characters and was changed last 300 ms ago or earlier; and the
\* timer that is pending is the one that was set at the last change of the query.
C26_RequestsAfterQuiet ==
    /\ [][IssuesRequest =>
              /\ searches'[Len(searches')].q = StringTrim(cityField.query)
              /\ Len(StringTrim(cityField.query)) >= 2
              /\ now - args >= SEARCH_DELAY_MS]_vars
    /\ [](cityField.timer # Null =>
              cityField.timer = Some(cityField.query) /\ ret = Some(args + SEARCH_DELAY_MS))

\* C26, the short query: a change of the query to one of less than 2 characters
\* after trimming leaves no results, no error and the dropdown closed.
C26_ShortQueryClears ==
    [][ChangesQuery /\ Len(StringTrim(cityField'.query)) < 2 =>
           /\ cityField'.results = <<>>
           /\ cityField'.error = Null
           /\ ~cityField'.open
           /\ cityField'.timer = Null]_vars

\* C26: a search request is issued only for the trimmed query of the field, of at
\* least 2 characters, 300 ms or more after the last change of the query; every
\* change of the query cancels the pending timer, so that a pending timer is the one
\* of the current query; and a change to a query of less than 2 characters after
\* trimming clears results, error and dropdown.
C26_Debounce == C26_RequestsAfterQuiet /\ C26_ShortQueryClears

----------------------------------------------------------------------------
(* The aspect lists of the two angles: report-view.tsx 705, 740-755.       *)

\* const allAspects = sortAspects(dedupeAspects(data.aspects))
allAspects(data) == sortAspects(dedupeAspects(data.aspects))

\* allAspects.filter(...): the aspects with an endpoint that is, in lower case, one
\* of the names
ExplicitAspects(aspects, names) ==
    SelectSeq(aspects, LAMBDA aspect : \/ ToLowerCase(aspect.p1) \in names
                                       \/ ToLowerCase(aspect.p2) \in names)

ascExplicitAspects(data) == ExplicitAspects(allAspects(data), {"asc", "ascendant"})

mcExplicitAspects(data) == ExplicitAspects(allAspects(data), {"mc", "midheaven"})

ascAspects_merged(data) ==
    ascExplicitAspects(data) \o deriveAngleAspects("asc", data.angles.asc, data.planets)

ascAspects(data) ==
    IF Len(ascExplicitAspects(data)) # 0 THEN ascExplicitAspects(data)
    ELSE deriveAngleAspects("asc", data.angles.asc, data.planets)

mcAspects(data) ==
    IF Len(mcExplicitAspects(data)) # 0 THEN mcExplicitAspects(data)
    ELSE deriveAngleAspects("mc", data.angles.mc, data.planets)

\* the endpoints of the upstream aspects of the model
AngleEndpointSamples ==
    { <<"ASC", "sun">>, <<"moon", "Ascendant">>, <<"mc", "Asc">>, <<"Midheaven", "mars">>,
      <<"sun", "moon">>, <<"asc", "ASC">> }

AngleAspectSamples ==
    { [p1 |-> e[1], p2 |-> e[2], type |-> "square", deg |-> Deg(90), orb |-> o,
       is_major |-> TRUE] : e \in AngleEndpointSamples, o \in {Deg(1), Deg(2)} }

\* the planets of the model: none; the Sun square to both angles; the Sun and the
\* Moon, the Moon trine to the ascendant and sextile to the midheaven
AnglePlanetSamples ==
    { <<>>,
      << [id |-> "sun", abs_pos |-> Deg(90)] >>,
      << [id |-> "sun", abs_pos |-> Deg(90)], [id |-> "moon", abs_pos |-> Deg(121)] >> }

InitAngleLists ==
    /\ InitReportView
    /\ pc = "init"
    /\ args \in [aspects : UNION { [1..n -> AngleAspectSamples] : n \in 0..2 },
                 angles : { [asc |-> Some(Deg(0)), mc |-> Some(Deg(180))] },
                 planets : AnglePlanetSamples]
    /\ ret = NoValue

\* the render of the report view, as far as the two lists
CallAngleAspects ==
    /\ pc = "init"
    /\ ret' = [asc |-> ascAspects(args), mc |-> mcAspects(args)]
    /\ pc' = "angleAspects"
    /\ UNCHANGED args
    /\ PureFrame

NextAngleLists == CallAngleAspects

SpecAngleLists == InitAngleLists /\ [][NextAngleLists]_vars

\* the lower-case names of an angle
AngleNames(angleKey) == IF angleKey = "asc" THEN {"asc", "ascendant"} ELSE {"mc", "midheaven"}

\* aspect has an endpoint that names the angle
NamesAngle(aspect, angleKey) ==
    \/ ToLowerCase(aspect.p1) \in AngleNames(angleKey)
    \/ ToLowerCase(aspect.p2) \in AngleNames(angleKey)

\* the aspects of a list
AspectsOf(list) == { list[i] : i \in 1..Len(list) }

\* C27: for each of the two angles, if the deduplicated upstream list holds an
\* aspect with an endpoint that names the angle, the list of the angle holds exactly
\* those aspects, each once, and every aspect of it is an upstream aspect; without
\* such an aspect the list is the derived one.
C27_ExplicitPrecedence ==
    pc = "angleAspects" =>
        \A angleKey \in {"asc", "mc"} :
            LET upstream == { a \in AspectsOf(dedupeAspects(args.aspects)) :
                                NamesAngle(a, angleKey) }
                list == ret[angleKey]
            IN  IF upstream # {}
                THEN /\ AspectsOf(list) = upstream
                     /\ Len(list) = Cardinality(upstream)
                     /\ \A i \in 1..Len(list) : list[i] \in AspectsOf(args.aspects)
                ELSE list = deriveAngleAspects(angleKey, args.angles[angleKey], args.planets)

\* The upstream list names the ascendant and not the midheaven, and the Sun is square
\* to both: the list of the ascendant is the upstream aspect alone, the list of the
\* midheaven is the derived one, the square of the Sun before the sextile of the Moon.
C27_Witness ==
    /\ pc = "angleAspects"
    /\ Len(args.aspects) = 2
    /\ args.aspects[1].p1 = "moon" /\ args.aspects[1].p2 = "Ascendant"
    /\ args.aspects[2].p1 = "sun" /\ args.aspects[2].p2 = "moon"
    /\ Len(args.planets) = 2
    /\ ret.asc = <<args.aspects[1]>>
    /\ Len(ret.mc) = 2
    /\ ret.mc[1].p1 = "mc" /\ ret.mc[1].p2 = "sun" /\ ret.mc[1].type = "square"
    /\ ret.mc[2].p1 = "mc" /\ ret.mc[2].p2 = "moon" /\ ret.mc[2].type = "sextile"

----------------------------------------------------------------------------
(* The lists of aspects of the report: the table of all aspects, the lists *)
(* of the two angles and the list of each planet (report-view.tsx 357-373, *)
(* 705, 740-755, 2033).                                                    *)

majorTypes == {"conjunction", "sextile", "square", "trine", "opposition"}

\* majorTypes.has(aspect.type.toLowerCase()) || aspect.is_major
isMajor(aspect) == ToLowerCase(aspect.type) \in majorTypes \/ aspect.is_major

\* the comparator of planetAspects: negative, zero or positive
ComparePlanetAspects(a, b) ==
    IF isMajor(a) # isMajor(b) THEN (IF isMajor(a) THEN -1 ELSE 1)
    ELSE a.orb - b.orb

\* Array.prototype.sort with the comparator, a stable sort
RECURSIVE InsertByMajorThenOrb(_, _)
InsertByMajorThenOrb(sorted, aspect) ==
    IF sorted = <<>> THEN <<aspect>>
    ELSE IF ComparePlanetAspects(sorted[Len(sorted)], aspect) <= 0 THEN Append(sorted, aspect)
    ELSE Append(InsertByMajorThenOrb(SubSeq(sorted, 1, Len(sorted) - 1), aspect),
                sorted[Len(sorted)])

RECURSIVE SortPlanetAspectsFrom(_, _, _)
SortPlanetAspectsFrom(aspects, i, sorted) ==
    IF i > Len(aspects) THEN sorted
    ELSE SortPlanetAspectsFrom(aspects, i + 1, InsertByMajorThenOrb(sorted, aspects[i]))

planetAspects_filterOnly(aspects, planetId) ==
    SelectSeq(aspects, LAMBDA aspect : aspect.p1 = planetId \/ aspect.p2 = planetId)

planetAspects(aspects, planetId) ==
    SortPlanetAspectsFrom(
        SelectSeq(aspects, LAMBDA aspect : aspect.p1 = planetId \/ aspect.p2 = planetId),
        1, <<>>)

\* the upstream aspects of the model: major and minor types, the flag is_major with
\* and against the type, orbs of 1, 2 and 3 degrees
ListedEndpointSamples == { <<"sun", "moon">>, <<"mars", "sun">>, <<"ASC", "moon">> }

ListedTypeSamples ==
    { [type |-> "square", deg |-> Deg(90), is_major |-> TRUE],
      [type |-> "Trine", deg |-> Deg(120), is_major |-> FALSE],
      [type |-> "quincunx", deg |-> Deg(150), is_major |-> FALSE] }

ListedAspectSamples ==
    { [p1 |-> e[1], p2 |-> e[2], type |-> t.type, deg |-> t.deg, orb |-> o,
       is_major |-> t.is_major] :
        e \in ListedEndpointSamples, t \in ListedTypeSamples, o \in {Deg(1), Deg(2), Deg(3)} }

\* the bound on the length of the upstream lists
MaxListed == 2

InitAspectLists ==
    /\ InitReportView
    /\ pc = "init"
    /\ args \in [aspects : UNION { [1..n -> ListedAspectSamples] : n \in 0..MaxListed },
                 angles : { [asc |-> Some(Deg(0)), mc |-> Some(Deg(180))] },
                 planets : { << [id |-> "sun", abs_pos |-> Deg(90)],
                                [id |-> "moon", abs_pos |-> Deg(121)] >> }]
    /\ ret = NoValue

\* the render of the report view, as far as the lists of aspects
CallAspectLists ==
    /\ pc = "init"
    /\ ret' = [all |-> allAspects(args),
               asc |-> ascAspects(args),
               mc |-> mcAspects(args),
               planets |-> [i \in 1..Len(args.planets) |->
                               planetAspects(allAspects(args), args.planets[i].id)]]
    /\ pc' = "aspectLists"
    /\ UNCHANGED args
    /\ PureFrame

NextAspectLists == CallAspectLists

SpecAspectLists == InitAspectLists /\ [][NextAspectLists]_vars

\* the orbs of a list do not decrease
AscendingOrb(list) == \A i, j \in 1..Len(list) : i < j => list[i].orb <= list[j].orb

\* no minor aspect of a list stands before a major one, and the orbs do not decrease
\* among the major ones and among the minor ones
MajorFirstThenOrb(list) ==
    \A i, j \in 1..Len(list) :
        i < j => /\ isMajor(list[j]) => isMajor(list[i])
                 /\ isMajor(list[i]) = isMajor(list[j]) => list[i].orb <= list[j].orb

\* C28 as stated: every list of aspects of the report, the lists of the planets
\* included, is in ascending order of orb.
C28_AscendingOrbEverywhere ==
    pc = "aspectLists" =>
        /\ AscendingOrb(ret.all)
        /\ AscendingOrb(ret.asc)
        /\ AscendingOrb(ret.mc)
        /\ \A i \in 1..Len(ret.planets) : AscendingOrb(ret.planets[i])

\* C28: the table of all aspects and the lists of the two angles are in ascending
\* order of orb; the list of a planet holds the aspects of the table that have the
\* planet's id as an endpoint, the major ones (a major type, or is_major) before the
\* minor ones, each of the two groups in ascending order of orb.
C28_PresentationOrder ==
    pc = "aspectLists" =>
        /\ AscendingOrb(ret.all)
        /\ AscendingOrb(ret.asc)
        /\ AscendingOrb(ret.mc)
        /\ \A i \in 1..Len(ret.planets) :
               /\ MajorFirstThenOrb(ret.planets[i])
               /\ AspectsOf(ret.planets[i])
                      = { a \in AspectsOf(ret.all) : args.planets[i].id \in {a.p1, a.p2} }
               /\ Len(ret.planets[i])
                      = Cardinality({ k \in 1..Len(ret.all) :
                                        args.planets[i].id \in {ret.all[k].p1, ret.all[k].p2} })

\* The Sun has a quincunx of orb 1 and a square of orb 3: the table lists the
\* quincunx first, the list of the Sun the square.
C28_Witness ==
    /\ pc = "aspectLists"
    /\ Len(ret.all) = 2
    /\ ret.all[1].type = "quincunx" /\ ret.all[1].orb = Deg(1)
    /\ ret.all[2].type = "square" /\ ret.all[2].orb = Deg(3)
    /\ ret.planets[1] = <<ret.all[2], ret.all[1]>>

----------------------------------------------------------------------------
(* The order of the derived aspects of an angle and of the table of all    *)
(* aspects (report-view.tsx 184-186, 242-272, 705).                        *)

InitSorted ==
    /\ InitReportView
    /\ pc = "init"
    /\ args \in [angleKey : {"asc", "mc"}, angleAbsPos : AngleRefSamples,
                 planets : PlanetLists]
             \cup [aspects : UNION { [1..n -> ListedAspectSamples] : n \in 0..MaxListed }]
    /\ ret = NoValue

\* deriveAngleAspects on an angle and the planets of a chart
CallDeriveSorted ==
    /\ pc = "init"
    /\ "planets" \in DOMAIN args
    /\ ret' = deriveAngleAspects(args.angleKey, args.angleAbsPos, args.planets)
    /\ pc' = "deriveAngleAspects"
    /\ UNCHANGED args
    /\ PureFrame

\* allAspects of the report view on an upstream list
CallAllAspects ==
    /\ pc = "init"
    /\ "aspects" \in DOMAIN args
    /\ ret' = allAspects(args)
    /\ pc' = "allAspects"
    /\ UNCHANGED args
    /\ PureFrame

NextSorted == CallDeriveSorted \/ CallAllAspects

SpecSorted == InitSorted /\ [][NextSorted]_vars

\* how often a record stands in a list
Occurrences(list, record) == Cardinality({ i \in 1..Len(list) : list[i] = record })

\* the two lists hold the same records, each as often in one as in the other
IsPermutation(left, right) ==
    /\ Len(left) = Len(right)
    /\ \A i \in 1..Len(left) : Occurrences(left, left[i]) = Occurrences(right, left[i])

\* C29: the records that deriveAngleAspects returns are in non-decreasing order of
\* orb; the table of all aspects is in non-decreasing order of orb and is a
\* permutation of the deduplicated upstream list.
C29_SortedByOrb ==
    /\ pc = "deriveAngleAspects" => AscendingOrb(ret)
    /\ pc = "allAspects" =>
           /\ AscendingOrb(ret)
           /\ IsPermutation(ret, dedupeAspects(args.aspects))

\* The upstream list holds an aspect of orb 3 before another of orb 1: both are kept
\* by the deduplication, in that order, and the table lists them the other way round.
C29_Witness ==
    /\ pc = "allAspects"
    /\ Len(args.aspects) = 2
    /\ args.aspects[1].orb = Deg(3)
    /\ args.aspects[2].orb = Deg(1)
    /\ dedupeAspects(args.aspects) = args.aspects
    /\ ret = <<args.aspects[2], args.aspects[1]>>

\* The ascendant at 0, the Sun at 96 and the Moon at 64.5: the sextile of the Moon
\* (orb 4.5) is returned before the square of the Sun (orb 6), which was found first.
C29_DerivedReordered ==
    /\ pc = "deriveAngleAspects"
    /\ args.angleAbsPos = Some(Deg(0))
    /\ Len(args.planets) = 2
    /\ args.planets[1].abs_pos = Deg(96)
    /\ Len(ret) = 2
    /\ ret[1].p2 = "moon" /\ ret[1].orb = Centi(450)
    /\ ret[2].p2 = "sun" /\ ret[2].orb = Deg(6)

----------------------------------------------------------------------------
(* parseInterpretationAtoms: report-view.tsx 135-172.                      *)
(*                                                                         *)
(* The payload is a value of JavaScript, undefined (<<>>) included; the    *)
(* members of an object stand in the order in which Object.values gives    *)
(* them.  The result is [threw, atoms]: reading a property of null or of   *)
(* undefined, Object.values of them and for-of over a value that is not    *)
(* iterable throw a TypeError.                                             *)

TypeErrorThrown == [threw |-> TRUE, atoms |-> <<>>]

AtomsReturned(atoms) == [threw |-> FALSE, atoms |-> atoms]

\* typeof value
JsTypeOf(opt) ==
    IF opt = Undefined THEN "undefined"
    ELSE IF opt[1].t \in {"object", "array", "null"} THEN "object"
    ELSE opt[1].t

\* !value
JsFalsy(opt) ==
    \/ opt = Undefined
    \/ opt[1].t = "null"
    \/ opt[1].t = "boolean" /\ ~opt[1].v
    \/ opt[1].t = "number" /\ opt[1].v = 0
    \/ opt[1].t = "string" /\ opt[1].v = <<>>

\* a property of the value cannot be read
IsNullish(opt) == opt = Undefined \/ opt[1].t = "null"

NotAnObject_typeofOnly(opt) == JsTypeOf(opt) # "object" \/ opt[1].t = "array"

\* !value || typeof value !== "object" || Array.isArray(value)
NotAnObject(opt) == JsFalsy(opt) \/ JsTypeOf(opt) # "object" \/ opt[1].t = "array"

\* rec[word]: undefined for a primitive and for an array, which have no such property
GetProperty(value, word) == IF value.t = "object" THEN Lookup(value, word) ELSE Undefined

\* typeof rec[word] === "string" ? rec[word] : ""
StringOrEmpty(rec, word) ==
    LET string(opt) == IF JsTypeOf(opt) = "string" THEN opt[1].v ELSE <<>>
    IN  string(GetProperty(rec, word))

\* the body of the inner loop: the atoms of one entry
AtomsOfEntry(entry) ==
    IF NotAnObject(<<entry>>) THEN AtomsReturned(<<>>)
    ELSE IF IsNullish(<<entry>>) THEN TypeErrorThrown
    ELSE LET atom(title, body) ==
                 IF title = <<>> \/ body = <<>> THEN AtomsReturned(<<>>)
                 ELSE AtomsReturned(<< [key |-> StringOrEmpty(entry, "key"),
                                   category |-> StringOrEmpty(entry, "category"),
                                   title |-> title, body |-> body] >>)
         IN  atom(StringTrim(StringOrEmpty(entry, "title")),
                  StringTrim(StringOrEmpty(entry, "body")))

\* the results of a loop, one after the other: thrown if one of them is
RECURSIVE Collect(_, _, _)
Collect(results, i, atoms) ==
    IF i > Len(results) THEN AtomsReturned(atoms)
    ELSE IF results[i].threw THEN TypeErrorThrown
    ELSE Collect(results, i + 1, atoms \o results[i].atoms)

\* the body of the outer loop: the atoms of one value of the sections
AtomsOfSection(entries) ==
    IF entries.t # "array" THEN AtomsReturned(<<>>)
    ELSE Collect([i \in 1..Len(entries.v) |-> AtomsOfEntry(entries.v[i])], 1, <<>>)

\* Object.values(sections)
ObjectValues(object) == [i \in 1..Len(object.v) |-> object.v[i].value]

\* the loops over the sections
AtomsOfSections(sections) ==
    IF NotAnObject(sections) THEN AtomsReturned(<<>>)
    ELSE IF IsNullish(sections) THEN TypeErrorThrown
    ELSE LET values(list) ==
                 Collect([i \in 1..Len(list) |-> AtomsOfSection(list[i])], 1, <<>>)
         IN  values(IF sections[1].t = "object" THEN ObjectValues(sections[1]) ELSE <<>>)

parseInterpretationAtoms(interpretation) ==
    IF NotAnObject(interpretation) THEN AtomsReturned(<<>>)
    ELSE IF IsNullish(interpretation) THEN TypeErrorThrown
    ELSE AtomsOfSections(GetProperty(interpretation[1], "sections"))

\* the bound on the entries of a section
MaxEntries == 2

\* " Sun "
PaddedTitle == <<32, 83, 117, 110, 32>>

\* an atom with white space around its title, a key and a category
SunEntry ==
    JObject(<< Member("key", JString(<<115, 117, 110>>)),
               Member("category", JString(<<112>>)),
               Member("title", JString(PaddedTitle)),
               Member("body", JString(<<97>>)) >>)

\* an atom with white space after its body, without key and category
MoonEntry ==
    JObject(<< Member("title", JString(<<77>>)), Member("body", JString(<<98, 32>>)) >>)

\* the entries of the model: the two atoms, an entry with a blank title, one with a
\* number as body, null, an array, a string
EntrySamples ==
    { SunEntry,
      MoonEntry,
      JObject(<< Member("title", JString(<<32, 32>>)), Member("body", JString(<<99>>)) >>),
      JObject(<< Member("title", JString(<<78>>)), Member("body", JNumber(10000)) >>),
      JNull,
      JArray(<< JString(<<97>>) >>),
      JString(<<97>>) }

\* the values of a section: missing, an array of entries, or no array
SectionSamples ==
    { <<>>, <<JNull>>, <<JObject(<<>>)>> }
        \cup { <<JArray(entries)>> : entries \in SeqsUpTo(EntrySamples, MaxEntries) }

\* the values of a second section
SecondSectionSamples ==
    { <<>>, <<JString(<<97>>)>>, <<JArray(<<SunEntry>>)>>,
      <<JArray(<<JString(<<97>>), MoonEntry>>)>> }

\* the values of sections: missing, falsy, an array, a string, or the map of the
\* sections planets and aspects
SectionsSamples ==
    { <<>>, <<JNull>>, <<JNumber(0)>>, <<JArray(<<>>)>>, <<JString(<<97>>)>> }
        \cup { <<JObject(MemberIf("planets", p) \o MemberIf("aspects", a))>> :
                 p \in SectionSamples, a \in SecondSectionSamples }

InterpretationSamples ==
    { <<>>, <<JNull>>, <<JBoolean(FALSE)>>, <<JString(<<97>>)>>, <<JNumber(10000)>>,
      <<JArray(<< JObject(<<>>) >>)>> }
        \cup { <<JObject(MemberIf("sections", sections))>> : sections \in SectionsSamples }

InitAtoms ==
    /\ InitReportView
    /\ pc = "init"
    /\ args \in InterpretationSamples
    /\ ret = NoValue

CallParseInterpretationAtoms ==
    /\ pc = "init"
    /\ ret' = parseInterpretationAtoms(args)
    /\ pc' = "parseInterpretationAtoms"
    /\ UNCHANGED args
    /\ PureFrame

NextAtoms == CallParseInterpretationAtoms

SpecAtoms == InitAtoms /\ [][NextAtoms]_vars

\* the value is an object that is neither null nor an array
IsPlainObject(opt) == opt # Undefined /\ opt[1].t = "object"

\* the trimmed string that the entry has under the word, <<>> where it has no string
TrimmedString(entry, word) ==
    IF Lookup(entry, word) # Undefined /\ Lookup(entry, word)[1].t = "string"
    THEN StringTrim(Lookup(entry, word)[1].v) ELSE <<>>

\* the entry is an object with a title and a body that are strings and not blank
IsAtomEntry(entry) ==
    /\ entry.t = "object"
    /\ TrimmedString(entry, "title") # <<>>
    /\ TrimmedString(entry, "body") # <<>>

\* the entries of the payload in its order: the values of the sections map one after
\* the other, and of each value that is an array its elements
EntriesInOrder(sections) ==
    Concat([i \in 1..Len(sections.v) |->
               IF sections.v[i].value.t = "array" THEN sections.v[i].value.v ELSE <<>>])

\* C30: parseInterpretationAtoms does not throw; it returns the empty list for a
\* payload that is no object (absent, null, a primitive, an array) or whose sections
\* are no object; otherwise it returns, in the order of the payload, one atom for
\* each entry that is an object with a string title and a string body that are not
\* empty after trimming, with the trimmed title and body, and nothing for any other
\* entry; no atom that it returns has an empty title or body.
C30_AtomsOfPayload ==
    pc = "parseInterpretationAtoms" =>
        /\ ~ret.threw
        /\ \A i \in 1..Len(ret.atoms) : ret.atoms[i].title # <<>> /\ ret.atoms[i].body # <<>>
        /\ IF IsPlainObject(args) /\ IsPlainObject(Lookup(args[1], "sections"))
           THEN LET kept == SelectSeq(EntriesInOrder(Lookup(args[1], "sections")[1]),
                                      IsAtomEntry)
                IN  /\ Len(ret.atoms) = Len(kept)
                    /\ \A i \in 1..Len(kept) :
                           /\ ret.atoms[i].title = TrimmedString(kept[i], "title")
                           /\ ret.atoms[i].body = TrimmedString(kept[i], "body")
           ELSE ret.atoms = <<>>

\* The section planets holds null and the atom " Sun ", the section aspects a string
\* and the atom M: two atoms are returned, Sun before M, the title trimmed.
C30_Witness ==
    /\ pc = "parseInterpretationAtoms"
    /\ IsPlainObject(args)
    /\ IsPlainObject(Lookup(args[1], "sections"))
    /\ Len(EntriesInOrder(Lookup(args[1], "sections")[1])) = 4
    /\ EntriesInOrder(Lookup(args[1], "sections")[1])[1] = JNull
    /\ EntriesInOrder(Lookup(args[1], "sections")[1])[3].t = "string"
    /\ Len(ret.atoms) = 2
    /\ ret.atoms[1].title = <<83, 117, 110>>
    /\ ret.atoms[1].category = <<112>>
    /\ ret.atoms[2].title = <<77>>
    /\ ret.atoms[2].body = <<98>>
    /\ ret.atoms[2].key = <<>>

----------------------------------------------------------------------------
(* The load of the stored highlights: report-view.tsx 886-917.             *)
(*                                                                         *)
(* What the store holds under the key is given by the outcome of getItem:  *)
(* it throws (the browser denies the access to the store), or it returns   *)
(* null (no such key) or the text stored.  The result is [threw, items],   *)
(* the items being the values that JSON.parse gave and the filters kept.   *)

GetItemThrows == [threw |-> TRUE, value |-> Null]

GetItemGives(raw) == [threw |-> FALSE, value |-> raw]

\* the first filter: an object with a string id, numeric start and end, string color
IsStoredHighlightShape(item) ==
    /\ ~JsFalsy(Some(item))
    /\ JsTypeOf(Some(item)) = "object"
    /\ JsTypeOf(GetProperty(item, "id")) = "string"
    /\ JsTypeOf(GetProperty(item, "start")) = "number"
    /\ JsTypeOf(GetProperty(item, "end")) = "number"
    /\ JsTypeOf(GetProperty(item, "color")) = "string"

\* the second filter: item.start >= 0 && item.end > item.start
IsStoredHighlightRange(item) ==
    /\ GetProperty(item, "start")[1].v >= 0
    /\ GetProperty(item, "end")[1].v > GetProperty(item, "start")[1].v

\* the body of the try
highlights_try(hasWindow, getItem) ==
    IF ~hasWindow THEN [threw |-> FALSE, items |-> <<>>]
    ELSE IF getItem.threw THEN [threw |-> TRUE, items |-> <<>>]
    ELSE IF getItem.value = Null \/ getItem.value[1] = <<>>
    THEN [threw |-> FALSE, items |-> <<>>]
    ELSE LET filtered(parsed) ==
                 IF ~parsed.ok THEN [threw |-> TRUE, items |-> <<>>]
                 ELSE IF parsed.v.t # "array" THEN [threw |-> FALSE, items |-> <<>>]
                 ELSE [threw |-> FALSE,
                       items |-> SelectSeq(SelectSeq(parsed.v.v, IsStoredHighlightShape),
                                           IsStoredHighlightRange)]
         IN  filtered(JsonParse(getItem.value[1]))

highlights_noCatch(hasWindow, getItem) == highlights_try(hasWindow, getItem)

\* the catch turns every throw of the body into the empty list
highlightsOf(hasWindow, getItem) ==
    [threw |-> FALSE, items |-> highlights_try(hasWindow, getItem).items]

MaxStored == 2

StoredHighlightValue(id, start, end, color) ==
    JObject(<<[key |-> Chars("id"), value |-> id], [key |-> Chars("start"), value |-> start],
              [key |-> Chars("end"), value |-> end], [key |-> Chars("color"), value |-> color]>>)

\* entries of a stored array: two well-formed ranges (the second with a fractional
\* end), a negative start, an empty range, a numeric id, no color, a start held as
\* a string, null and an array
StoredEntrySamples ==
    { StoredHighlightValue(JString(<<97>>), JNumber(0), JNumber(50000), JString(<<35, 102>>)),
      StoredHighlightValue(JString(<<98>>), JNumber(50000), JNumber(105000), JString(<<>>)),
      StoredHighlightValue(JString(<<99>>), JNumber(-10000), JNumber(50000), JString(<<35>>)),
      StoredHighlightValue(JString(<<100>>), JNumber(50000), JNumber(50000), JString(<<35>>)),
      StoredHighlightValue(JNumber(70000), JNumber(0), JNumber(50000), JString(<<35>>)),
      JObject(<<[key |-> Chars("id"), value |-> JString(<<101>>)],
                [key |-> Chars("start"), value |-> JNumber(0)],
                [key |-> Chars("end"), value |-> JNumber(50000)]>>),
      StoredHighlightValue(JString(<<102>>), JString(<<48>>), JNumber(50000), JString(<<35>>)),
      [t |-> "null", v |-> 0],
      JArray(<<>>) }

\* texts that are not the text of an array: null, {}, 7, "a", then texts that are no
\* JSON: the empty text, [, [1,], undefined and a text cut short
OtherStoredTexts ==
    { <<110, 117, 108, 108>>, <<123, 125>>, <<55>>, <<34, 97, 34>>,
      <<>>, <<91>>, <<91, 49, 44, 93>>, <<117, 110, 100, 101, 102, 105, 110, 101, 100>>, <<91, 123, 34, 105, 100, 34, 58, 34, 97, 34, 44, 34, 115, 116, 97, 114, 116, 34, 58, 48>> }

StoredTexts ==
    { JsonStringify(JArray(entries)) : entries \in SeqsUpTo(StoredEntrySamples, MaxStored) }
    \cup OtherStoredTexts

GetItemSamples ==
    {GetItemThrows, GetItemGives(Null)} \cup { GetItemGives(Some(text)) : text \in StoredTexts }

InitLoad ==
    /\ InitReportView
    /\ pc = "init"
    /\ args \in [hasWindow : BOOLEAN, getItem : GetItemSamples]
    /\ ret = NoValue

CallHighlights ==
    /\ pc = "init"
    /\ ret' = highlightsOf(args.hasWindow, args.getItem)
    /\ pc' = "highlights"
    /\ UNCHANGED args
    /\ PureFrame

NextLoad == CallHighlights

SpecLoad == InitLoad /\ [][NextLoad]_vars

\* the text stored is the text of a JSON array
IsArrayText(getItem) ==
    /\ ~getItem.threw
    /\ getItem.value # Null
    /\ JsonParse(getItem.value[1]).ok
    /\ JsonParse(getItem.value[1]).v.t = "array"

NumberMember(item, word) ==
    \E i \in 1..Len(item.v) :
        /\ item.v[i].key = Chars(word)
        /\ item.v[i].value.t = "number"
        /\ \A j \in (i + 1)..Len(item.v) : item.v[j].key # Chars(word)

StringMember(item, word) ==
    \E i \in 1..Len(item.v) :
        /\ item.v[i].key = Chars(word)
        /\ item.v[i].value.t = "string"
        /\ \A j \in (i + 1)..Len(item.v) : item.v[j].key # Chars(word)

NumberOf(item, word) ==
    item.v[CHOOSE i \in 1..Len(item.v) :
               item.v[i].key = Chars(word)
               /\ \A j \in (i + 1)..Len(item.v) : item.v[j].key # Chars(word)].value.v

\* an entry that the load is to keep
IsLoadable(item) ==
    /\ item.t = "object"
    /\ StringMember(item, "id") /\ StringMember(item, "color")
    /\ NumberMember(item, "start") /\ NumberMember(item, "end")
    /\ 0 <= NumberOf(item, "start")
    /\ NumberOf(item, "start") < NumberOf(item, "end")

\* C31: the load of the stored highlights never throws; a missing key, a text that
\* is not valid JSON and a value that is not an array give the empty list; of an
\* array the entries with a string id, numeric start and end and a string color and
\* with 0 <= start < end are kept, in their order, and the others dropped, so that
\* every loaded range has 0 <= start < end.
C31_LoadNeverThrows ==
    pc = "highlights" =>
        /\ ~ret.threw
        /\ IF args.hasWindow /\ IsArrayText(args.getItem)
           THEN ret.items = SelectSeq(JsonParse(args.getItem.value[1]).v.v, IsLoadable)
           ELSE ret.items = <<>>
        /\ \A i \in 1..Len(ret.items) :
               /\ 0 <= NumberOf(ret.items[i], "start")
               /\ NumberOf(ret.items[i], "start") < NumberOf(ret.items[i], "end")

\* an array of two entries was stored, of which the load dropped the one with the
\* negative start and kept the other
C31_Witness ==
    /\ pc = "highlights"
    /\ args.hasWindow
    /\ IsArrayText(args.getItem)
    /\ Len(JsonParse(args.getItem.value[1]).v.v) = 2
    /\ Len(ret.items) = 1
    /\ \E i \in 1..2 :
           LET entry == JsonParse(args.getItem.value[1]).v.v[i]
           IN  /\ entry.t = "object"
               /\ NumberMember(entry, "start")
               /\ NumberOf(entry, "start") < 0

----------------------------------------------------------------------------
(* The key of the stored highlights: report-view.tsx 881-885, 892, 921.    *)
(*                                                                         *)
(* Two reports are open one after the other in the same browser; args      *)
(* holds their subjects, localStorage the text stored under each key, and  *)
(* ret the list that each report persisted last.                           *)

\* ${value} of a template literal
TemplateText(opt) == IF opt = Undefined THEN Chars("undefined") ELSE opt[1]

highlightStorageKey(subject) ==
    Chars("report-highlights:v2:") \o TemplateText(subject.name) \o Chars("|")
    \o subject.datetime \o Chars("|") \o subject.city

\* window.localStorage.getItem(key)
getItem(storage, key) == IF key \in DOMAIN storage THEN Some(storage[key]) ELSE Null

\* window.localStorage.setItem(key, value)
setItem(storage, key, value) ==
    [k \in DOMAIN storage \cup {key} |-> IF k = key THEN value ELSE storage[k]]

\* the highlights that the report of the subject renders
highlightsFor(storage, subject) ==
    highlightsOf(TRUE, GetItemGives(getItem(storage, highlightStorageKey(subject)))).items

\* names: none, the text undefined, A and A|D|X; datetimes D and E; cities c and X|D|c
SubjectNameSamples ==
    {Undefined, Some(Chars("undefined")), Some(<<65>>), Some(<<65, 124, 68, 124, 88>>)}

SubjectDatetimeSamples == {<<68>>, <<69>>}

SubjectCitySamples == {<<99>>, <<88, 124, 68, 124, 99>>}

SubjectSamples ==
    [name : SubjectNameSamples, datetime : SubjectDatetimeSamples, city : SubjectCitySamples]

\* the lists that a report persists: none, one range, two ranges
PersistedSamples ==
    { <<>>,
      <<StoredHighlightValue(JString(<<97>>), JNumber(0), JNumber(50000), JString(<<35>>))>>,
      <<StoredHighlightValue(JString(<<97>>), JNumber(0), JNumber(50000), JString(<<35>>)),
        StoredHighlightValue(JString(<<98>>), JNumber(50000), JNumber(90000), JString(<<35>>))>> }

InitKeys ==
    /\ InitReportView
    /\ pc = "init"
    /\ args \in { pair \in SubjectSamples \X SubjectSamples : pair[1] # pair[2] }
    /\ ret = <<<<>>, <<>>>>

\* persistHighlights of the report r, followed by its render
persistHighlightsOf(r, next, writeOk) ==
    /\ localStorage' = IF writeOk
                       THEN setItem(localStorage, highlightStorageKey(args[r]),
                                    JsonStringify(JArray(next)))
                       ELSE localStorage
    /\ ret' = IF writeOk THEN [ret EXCEPT ![r] = next] ELSE ret
    /\ pc' = "persistHighlights"
    /\ UNCHANGED args
    /\ UNCHANGED <<highlightMenu, highlightSequenceRef, keepHighlightMenuOnNextClickRef,
                   pageVars, cityVars, chartVars>>

NextKeys ==
    \E r \in 1..2, next \in PersistedSamples, writeOk \in BOOLEAN :
        persistHighlightsOf(r, next, writeOk)

SpecKeys == InitKeys /\ [][NextKeys]_vars

\* subjects that differ have different keys
C32_DistinctKeys ==
    args[1] # args[2] => highlightStorageKey(args[1]) # highlightStorageKey(args[2])

\* each report renders the list that it persisted last
C32_OwnHighlightsLoaded ==
    \A r \in 1..2 : highlightsFor(localStorage, args[r]) = ret[r]

\* C32: two reports whose subjects differ in name, datetime or city use different
\* storage keys, so that the highlights of one are never loaded for, or overwritten
\* by, the other.
C32_StorageKeying == C32_DistinctKeys /\ C32_OwnHighlightsLoaded

\* what holds: reports with different keys render their own highlights
C32_SeparateWhenKeysDiffer ==
    highlightStorageKey(args[1]) # highlightStorageKey(args[2]) => C32_OwnHighlightsLoaded

\* the first report persisted a range that the second, which persisted nothing, renders
C32_Collision ==
    /\ pc = "persistHighlights"
    /\ args[1] # args[2]
    /\ ret[2] = <<>>
    /\ highlightsFor(localStorage, args[2]) # <<>>

----------------------------------------------------------------------------
(* The ids of the highlights across reloads of the page: report-view.tsx   *)
(* 690-698 and 1382-1397.  A reload mounts the report view anew: the menu  *)
(* is closed and the sequence counter is 0, the storage is as it was.      *)

reload ==
    /\ highlightMenu' = Null
    /\ highlightSequenceRef' = 0
    /\ keepHighlightMenuOnNextClickRef' = FALSE
    /\ pc' = "reload"
    /\ args' = <<>>
    /\ UNCHANGED <<localStorage, besideHighlight>>

\* the selection of a text, the creation and the removal of a range, the reload
NextReload ==
    \/ syncHighlightMenuFromSelection
    \/ \E c \in 1..Len(HIGHLIGHT_COLORS), writeOk \in BOOLEAN :
           addHighlight(HIGHLIGHT_COLORS[c], writeOk)
    \/ \E id \in StoredIds, hasActiveSelection \in BOOLEAN, writeOk \in BOOLEAN :
           onClickMarker(id, hasActiveSelection, writeOk)
    \/ reload

SpecReload == InitHighlight /\ [][NextReload]_vars

\* the id of a range that addHighlight stores is the id of no range stored before
MintsFreshId ==
    \A c \in 1..Len(HIGHLIGHT_COLORS), writeOk \in BOOLEAN :
        addHighlight(HIGHLIGHT_COLORS[c], writeOk) /\ Len(localStorage') > Len(localStorage)
            => localStorage'[Len(localStorage')].id \notin StoredIds

\* no two stored ranges have the same id
StoredIdsDistinct ==
    \A i, j \in 1..Len(localStorage) : i # j => localStorage[i].id # localStorage[j].id

\* C33: over creates, deletes and reloads of the page (which restart the sequence
\* counter and keep the stored ranges) the id of a newly created range differs from
\* the id of every range stored at that time, so that no two stored ranges share an
\* id and a removal by id removes at most one range.
C33_FreshIds == [][MintsFreshId]_vars /\ []StoredIdsDistinct

\* after a reload a range was created with the sequence number 1, which the range
\* stored before the reload carries as well
C33_Witness ==
    /\ pc = "addHighlight"
    /\ Len(localStorage) = 2
    /\ localStorage[1].id = mintHighlightId(10, 20, 1)
    /\ localStorage[2].id = mintHighlightId(20, 25, 1)

----------------------------------------------------------------------------
(* findAspectInterpretation: report-view.tsx 464-495.  An atom is          *)
(* [key, category, title, body], the result null or <<atom>>.              *)

\* str.includes(sub)
StringIncludes(str, sub) ==
    \E i \in 1..(Len(str) - Len(sub) + 1) : SubSeq(str, i, i + Len(sub) - 1) = sub

\* str.replace(/\s+/g, "_"): every run of white space becomes one _
ReplaceWhitespaceRuns(str) ==
    LET kept == { i \in 1..Len(str) :
                      ~IsTrimWhitespace(str[i]) \/ i = 1 \/ ~IsTrimWhitespace(str[i - 1]) }
        nth(k) == CHOOSE i \in kept : Cardinality({ j \in kept : j < i }) = k - 1
    IN  [k \in 1..Cardinality(kept) |->
            IF IsTrimWhitespace(str[nth(k)]) THEN 95 ELSE str[nth(k)]]

normalizeAspectToken(token) ==
    LET aliased(normalized) ==
            IF normalized = Chars("asc") THEN Chars("ascendant")
            ELSE IF normalized = Chars("mc") THEN Chars("midheaven")
            ELSE normalized
    IN  aliased(ReplaceWhitespaceRuns(toLowerCase(token)))

\* atoms.find(test): the first atom that passes, undefined without one
FindAtom(atoms, Test(_)) ==
    LET hits == SelectSeq(atoms, Test) IN IF hits = <<>> THEN Null ELSE Some(hits[1])

IsExactAspectAtom(atom, directKey, reverseKey) ==
    atom.category = Chars("aspect") /\ (atom.key = directKey \/ atom.key = reverseKey)

IsLooseAspectAtom(atom, p1, p2, type) ==
    /\ atom.category = Chars("aspect")
    /\ StringIncludes(toLowerCase(atom.key), type)
    /\ StringIncludes(toLowerCase(atom.key), p1)
    /\ StringIncludes(toLowerCase(atom.key), p2)

findAspectInterpretation_looseFirst(atoms, aspect) ==
    LET p1 == normalizeAspectToken(aspect.p1)
        p2 == normalizeAspectToken(aspect.p2)
        type == normalizeAspectToken(aspect.type)
        loose(atom) == IsLooseAspectAtom(atom, p1, p2, type)
    IN  FindAtom(atoms, loose)

findAspectInterpretation(atoms, aspect) ==
    LET p1 == normalizeAspectToken(aspect.p1)
        p2 == normalizeAspectToken(aspect.p2)
        type == normalizeAspectToken(aspect.type)
        directKey == Chars("aspect.") \o p1 \o Chars(".") \o type \o Chars(".") \o p2
        reverseKey == Chars("aspect.") \o p2 \o Chars(".") \o type \o Chars(".") \o p1
        exact(atom) == IsExactAspectAtom(atom, directKey, reverseKey)
        loose(atom) == IsLooseAspectAtom(atom, p1, p2, type)
    IN  IF FindAtom(atoms, exact) # Null THEN FindAtom(atoms, exact)
        ELSE FindAtom(atoms, loose)

MaxAtoms == 2

InterpretedEndpointSamples == {Chars("Sun"), Chars("Moon"), Chars("ASC"), Chars("North Node")}

InterpretedTypeSamples == {Chars("Trine"), Chars("square")}

InterpretedAspectSamples ==
    [p1 : InterpretedEndpointSamples, p2 : InterpretedEndpointSamples,
     type : InterpretedTypeSamples]

AtomOf(category, key) ==
    [key |-> Chars(key), category |-> Chars(category), title |-> <<84>>, body |-> <<66>>]

\* atoms with canonical keys, with a key that spells the node with a space, with a
\* key that matches loosely only, of another category, and with the alias asc
AtomSamples ==
    { AtomOf("aspect", "aspect.sun.trine.moon"),
      AtomOf("aspect", "aspect.moon.trine.sun"),
      AtomOf("aspect", "aspect.ascendant.trine.sun"),
      AtomOf("aspect", "aspect.sun.trine.north_node"),
      AtomOf("aspect", "aspect.sun.trine.north node"),
      AtomOf("aspect", "Aspect.Moon.Trine.Sun.extra"),
      AtomOf("planet", "aspect.sun.trine.moon"),
      AtomOf("aspect", "aspect.sun.square.asc") }

InitInterpretation ==
    /\ InitReportView
    /\ pc = "init"
    /\ args \in [atoms : SeqsUpTo(AtomSamples, MaxAtoms), aspect : InterpretedAspectSamples]
    /\ ret = NoValue

CallFindAspectInterpretation ==
    /\ pc = "init"
    /\ ret' = findAspectInterpretation(args.atoms, args.aspect)
    /\ pc' = "findAspectInterpretation"
    /\ UNCHANGED args
    /\ PureFrame

NextInterpretation == CallFindAspectInterpretation

SpecInterpretation == InitInterpretation /\ [][NextInterpretation]_vars

\* the sample tokens lowercased, with asc as ascendant, and with the white space as
\* it is or as _
LowercasedToken(token, space) ==
    CASE token = Chars("Sun") -> Chars("sun")
      [] token = Chars("Moon") -> Chars("moon")
      [] token = Chars("ASC") -> Chars("ascendant")
      [] token = Chars("North Node") -> Chars("north") \o space \o Chars("node")
      [] token = Chars("Trine") -> Chars("trine")
      [] token = Chars("square") -> Chars("square")

DottedKey(a, type, b) == Chars("aspect.") \o a \o Chars(".") \o type \o Chars(".") \o b

\* the statement for the tokens of the aspect taken with the given spelling of
\* white space
FindsExactFirst(space) ==
    pc = "findAspectInterpretation" =>
        LET p1 == LowercasedToken(args.aspect.p1, space)
            p2 == LowercasedToken(args.aspect.p2, space)
            type == LowercasedToken(args.aspect.type, space)
            keys == {DottedKey(p1, type, p2), DottedKey(p2, type, p1)}
            IsAspect(atom) == atom.category = Chars("aspect")
            Exact(atom) == IsAspect(atom) /\ atom.key \in keys
            Loose(atom) ==
                /\ IsAspect(atom)
                /\ \A part \in {p1, p2, type} : StringIncludes(toLowerCase(atom.key), part)
            Among(Test(_)) == \E i \in 1..Len(args.atoms) : Test(args.atoms[i])
        IN  /\ Among(Exact) => ret # Null /\ Exact(ret[1])
            /\ ret # Null => IsAspect(ret[1]) /\ Among(LAMBDA atom : atom = ret[1])
            /\ ~Among(Exact) /\ ~Among(Loose) => ret = Null

\* C34 as stated: with the endpoints and the type lowercased and asc, mc taken as
\* ascendant, midheaven, the result is an aspect atom whose key is
\* aspect.<p1>.<type>.<p2> or aspect.<p2>.<type>.<p1> whenever there is one, before
\* any looser match; it is never an atom of another category, and it is null when
\* no aspect atom matches.
C34_AsStated == FindsExactFirst(<<32>>)

\* C34: the same with every run of white space of the endpoints and the type
\* replaced by one _ as well (North Node is looked up as north_node).
C34_ExactBeforeLoose == FindsExactFirst(<<95>>)

\* the loosely matching atom stands before the atom with the reversed key, which is
\* the result
C34_Witness ==
    /\ pc = "findAspectInterpretation"
    /\ args.aspect = [p1 |-> Chars("Sun"), p2 |-> Chars("Moon"), type |-> Chars("Trine")]
    /\ args.atoms = <<AtomOf("aspect", "Aspect.Moon.Trine.Sun.extra"),
                      AtomOf("aspect", "aspect.moon.trine.sun")>>
    /\ ret = Some(AtomOf("aspect", "aspect.moon.trine.sun"))

----------------------------------------------------------------------------
(* The hover of the chart: onMouseMove of the chart container,             *)
(* report-view.tsx 1652-1743.                                              *)
(*                                                                         *)
(* A scene is the sequence of the elements under the section of the chart  *)
(* in document order, each [tag, parent, attrs, rect], rect being what     *)
(* getBoundingClientRect gives, in px.  A g element is not painted; of the *)
(* painted ones the later in the document lies above the earlier.  args is *)
(* [scene, x, y], (x, y) being the pointer of the event, and ret is        *)
(* hoverPlanet, which the handler reads only to skip a needless reset.  No *)
(* aspect is selected, so the layout effect of the render that follows a   *)
(* change of hoverPlanet (1145-1148) changes no style.                      *)

ProbeDistance == 8

SnapDistance == 22

\* the offsets of the probes, in the order of the loop
HoverOffsets ==
    << <<0, 0>>, <<ProbeDistance, 0>>, <<-ProbeDistance, 0>>, <<0, ProbeDistance>>,
       <<0, -ProbeDistance>>, <<ProbeDistance, ProbeDistance>>,
       <<ProbeDistance, -ProbeDistance>>, <<-ProbeDistance, ProbeDistance>>,
       <<-ProbeDistance, -ProbeDistance>> >>

HoverElement(tag, parent, attrs, rect) ==
    [tag |-> tag, parent |-> parent, attrs |-> attrs, rect |-> rect]

Rect(left, top, width, height) ==
    [left |-> left, top |-> top, width |-> width, height |-> height]

RectContains(rect, x, y) ==
    /\ rect.left <= x /\ x <= rect.left + rect.width
    /\ rect.top <= y /\ y <= rect.top + rect.height

\* document.elementsFromPoint(x, y): the painted elements at the point, topmost first
elementsFromPoint(scene, x, y) ==
    LET hit == { i \in 1..Len(scene) :
                    scene[i].tag # "g" /\ RectContains(scene[i].rect, x, y) }
    IN  [k \in 1..Cardinality(hit) |->
            CHOOSE i \in hit : Cardinality({ j \in hit : j > i }) = k - 1]

\* the element and its ancestors, nearest first
RECURSIVE SelfAndAncestors(_, _)
SelfAndAncestors(scene, i) ==
    IF i = 0 THEN <<>> ELSE <<i>> \o SelfAndAncestors(scene, scene[i].parent)

\* el.closest(selector), as an index, or 0
ClosestFitting(scene, i, Fits(_)) ==
    LET chain == SelectSeq(SelfAndAncestors(scene, i), Fits)
    IN  IF chain = <<>> THEN 0 ELSE chain[1]

\* [id],[data-planet],[data-body]
HasTokenAttribute(element) ==
    \/ hasAttribute(element, "id")
    \/ hasAttribute(element, "data-planet")
    \/ hasAttribute(element, "data-body")

\* [id^="sign-"] and [id^="house-"]
IdStartsWith(element, word) ==
    hasAttribute(element, "id") /\ startsWith(element.attrs["id"], Chars(word))

\* planetCandidate if it resolves to a token (1673-1676), or 0
PlanetCandidate(scene, i) ==
    LET fits(j) == HasTokenAttribute(scene[j])
        candidate == ClosestFitting(scene, i, fits)
    IN  IF candidate # 0 /\ Truthy(extractPlanetTokenFromElement(scene[candidate]))
        THEN candidate ELSE 0

ClosestSign(scene, i) ==
    LET fits(j) == IdStartsWith(scene[j], "sign-") IN ClosestFitting(scene, i, fits)

ClosestHouse(scene, i) ==
    LET fits(j) == IdStartsWith(scene[j], "house-") IN ClosestFitting(scene, i, fits)

\* the elements that the two loops visit before a planet stops them (1668-1687)
HoverVisits(scene, x, y) ==
    LET upTo(all, planetAt) ==
            IF planetAt = {} THEN all
            ELSE SubSeq(all, 1, CHOOSE n \in planetAt : \A m \in planetAt : n <= m)
        stopped(all) ==
            upTo(all, { n \in 1..Len(all) : PlanetCandidate(scene, all[n]) # 0 })
    IN  stopped(Concat([k \in 1..Len(HoverOffsets) |->
                           elementsFromPoint(scene, x + HoverOffsets[k][1],
                                             y + HoverOffsets[k][2])]))

\* the first element that a visit gives, or 0
FirstFound(found) ==
    LET hits == SelectSeq(found, LAMBDA c : c # 0) IN IF hits = <<>> THEN 0 ELSE hits[1]

\* four times the square of the distance of the centre of the element from the pointer
SquaredDistance4(element, x, y) ==
    LET dx == 2 * element.rect.left + element.rect.width - 2 * x
        dy == 2 * element.rect.top + element.rect.height - 2 * y
    IN  dx * dx + dy * dy

\* the nearest planet marker under the container within the snap distance
\* (1690-1714), or 0; container is the index of chartContainerRef.current
NearestMarker(scene, container, x, y) ==
    LET nearest(nodes) ==
            IF nodes = {} THEN 0
            ELSE CHOOSE i \in nodes :
                     \A j \in nodes :
                         \/ SquaredDistance4(scene[i], x, y) < SquaredDistance4(scene[j], x, y)
                         \/ /\ SquaredDistance4(scene[i], x, y)
                                = SquaredDistance4(scene[j], x, y)
                            /\ i <= j
    IN  nearest({ i \in 1..Len(scene) :
                    /\ i # container
                    /\ \E k \in 1..Len(SelfAndAncestors(scene, i)) :
                           SelfAndAncestors(scene, i)[k] = container
                    /\ HasTokenAttribute(scene[i])
                    /\ Truthy(extractPlanetTokenFromElement(scene[i]))
                    /\ SquaredDistance4(scene[i], x, y)
                           <= 4 * SnapDistance * SnapDistance })

HoverElementOf_signFirst(planet, sign, house) ==
    IF sign # 0 THEN sign ELSE IF planet # 0 THEN planet ELSE house

\* hoverPlanetEl ?? hoverSignEl ?? hoverHouseEl
HoverElementOf(planet, sign, house) ==
    IF planet # 0 THEN planet ELSE IF sign # 0 THEN sign ELSE house

\* id.replace(/^planet-/, "").replace(/^sign-/, "").replace(/^house-/, "")
StripHoverPrefixes(id) ==
    LET strip(str, word) ==
            IF startsWith(str, Chars(word))
            THEN SubSeq(str, Len(Chars(word)) + 1, Len(str)) ELSE str
    IN  strip(strip(strip(id, "planet-"), "sign-"), "house-")

\* the state that the handler sets for the element (1720-1741)
HoverStateOf(element, x, y) ==
    LET set(kind, token) ==
            IF token = <<>> THEN Null
            ELSE Some([kind |-> kind, token |-> token, x |-> x, y |-> y])
        named(id, planetToken) ==
            IF Truthy(planetToken) THEN set("planet", planetToken[1])
            ELSE IF startsWith(id, Chars("house-")) THEN set("house", StripHoverPrefixes(id))
            ELSE set("sign", StripHoverPrefixes(id))
    IN  named(IF Truthy(getAttribute(element, "id")) THEN element.attrs["id"]
              ELSE IF Truthy(getAttribute(element, "data-planet"))
              THEN element.attrs["data-planet"]
              ELSE IF Truthy(getAttribute(element, "data-body"))
              THEN element.attrs["data-body"]
              ELSE Chars("unknown"),
              extractPlanetTokenFromElement(element))

\* hoverPlanet after the handler
hoverPlanetAfter(scene, container, x, y) ==
    LET state(hoverElement) ==
            IF hoverElement = 0 THEN Null ELSE HoverStateOf(scene[hoverElement], x, y)
        orNearest(probed) ==
            IF probed # 0 THEN probed ELSE NearestMarker(scene, container, x, y)
        found(visits) ==
            HoverElementOf(
                orNearest(FirstFound([n \in 1..Len(visits) |->
                                         PlanetCandidate(scene, visits[n])])),
                FirstFound([n \in 1..Len(visits) |-> ClosestSign(scene, visits[n])]),
                FirstFound([n \in 1..Len(visits) |-> ClosestHouse(scene, visits[n])]))
    IN  state(found(HoverVisits(scene, x, y)))

\* The section of the chart with the container (2), a sign, a house that overlaps it,
\* the marker of the Sun (data-planet) and the marker of the Moon (id); the Sun lies
\* under the sign if it stands first, above it otherwise.
HoverScene(sunLeft, sunFirst) ==
    LET sun == << HoverElement("g", 2, [n \in {"data-planet"} |-> Chars("Sun")],
                               Rect(sunLeft, 10, 10, 10)),
                  HoverElement("path", IF sunFirst THEN 3 ELSE 5, NoAttributes,
                               Rect(sunLeft, 10, 10, 10)) >>
        sign == << HoverElement("g", 2, [n \in {"id"} |-> Chars("sign-aries")],
                                Rect(0, 0, 40, 40)),
                   HoverElement("path", IF sunFirst THEN 5 ELSE 3, NoAttributes,
                                Rect(0, 0, 40, 40)) >>
    IN  << HoverElement("section", 0, [n \in {"id"} |-> Chars("natal-wheel")],
                        Rect(0, 0, 200, 60)),
           HoverElement("div", 1, NoAttributes, Rect(0, 0, 200, 60)) >>
        \o (IF sunFirst THEN sun \o sign ELSE sign \o sun)
        \o << HoverElement("g", 2, [n \in {"id"} |-> Chars("house-1")], Rect(20, 0, 40, 60)),
              HoverElement("path", 7, NoAttributes, Rect(20, 0, 40, 60)),
              HoverElement("g", 2, [n \in {"id"} |-> Chars("planet_moon")],
                           Rect(100, 10, 10, 10)),
              HoverElement("circle", 9, NoAttributes, Rect(100, 10, 10, 10)) >>

HoverSceneSamples == { HoverScene(sunLeft, sunFirst) : sunLeft \in {30, 70}, sunFirst \in BOOLEAN }

\* the pointer is at multiples of PointerStep px, up to MaxPointer steps to the right
PointerStep == 5

MaxPointer == 30

PointerXs == { PointerStep * k : k \in 0..MaxPointer }

PointerYs == {15, 30, 45}

InitHover ==
    /\ InitReportView
    /\ pc = "init"
    /\ args \in [scene : HoverSceneSamples, x : PointerXs, y : PointerYs]
    /\ ret = Null

onMouseMove ==
    /\ pc = "init"
    /\ pc' = "onMouseMove"
    /\ UNCHANGED args
    /\ ret' = hoverPlanetAfter(args.scene, 2, args.x, args.y)
    /\ PureFrame

NextHover == onMouseMove

SpecHover == InitHover /\ [][NextHover]_vars

\* the painted elements that one of the nine probes hits
ProbedElements ==
    { i \in 1..Len(args.scene) :
        /\ args.scene[i].tag # "g"
        /\ \E dx \in {-ProbeDistance, 0, ProbeDistance},
              dy \in {-ProbeDistance, 0, ProbeDistance} :
               RectContains(args.scene[i].rect, args.x + dx, args.y + dy) }

PlanetHits == { PlanetCandidate(args.scene, i) : i \in ProbedElements } \ {0}

SignHits == { ClosestSign(args.scene, i) : i \in ProbedElements } \ {0}

HouseHits == { ClosestHouse(args.scene, i) : i \in ProbedElements } \ {0}

\* the planet markers whose centre is within the snap distance of the pointer
MarkersNearby ==
    { i \in 3..Len(args.scene) :
        /\ Truthy(extractPlanetTokenFromElement(args.scene[i]))
        /\ SquaredDistance4(args.scene[i], args.x, args.y) <= 4 * SnapDistance * SnapDistance }

IsHoverOf(kind, token) ==
    ret = Some([kind |-> kind, token |-> token, x |-> args.x, y |-> args.y])

IdSuffix(i, word) ==
    SubSeq(args.scene[i].attrs["id"], Len(Chars(word)) + 1, Len(args.scene[i].attrs["id"]))

\* C35: if one of the nine probes (the pointer and its eight neighbours at 8 px)
\* hits an element that resolves to a planet token, the hover is that planet, also
\* when a sign or a house was hit first; otherwise it is the nearest planet marker
\* whose centre is within 22 px of the pointer; only without a planet it is a sign
\* that was hit, and a house only when no sign was hit; with nothing found the
\* hover is cleared.
C35_HoverResolution ==
    pc = "onMouseMove" =>
        IF PlanetHits # {}
        THEN \E i \in PlanetHits :
                 IsHoverOf("planet", extractPlanetTokenFromElement(args.scene[i])[1])
        ELSE IF MarkersNearby # {}
        THEN \E i \in MarkersNearby :
                 /\ \A j \in MarkersNearby :
                        SquaredDistance4(args.scene[i], args.x, args.y)
                            <= SquaredDistance4(args.scene[j], args.x, args.y)
                 /\ IsHoverOf("planet", extractPlanetTokenFromElement(args.scene[i])[1])
        ELSE IF SignHits # {}
        THEN \E i \in SignHits : IsHoverOf("sign", IdSuffix(i, "sign-"))
        ELSE IF HouseHits # {}
        THEN \E i \in HouseHits : IsHoverOf("house", IdSuffix(i, "house-"))
        ELSE ret = Null

\* the pointer is over the house and the sign, which lie above the marker of the
\* Sun: they are hit first and the hover is the Sun
C35_Witness ==
    /\ pc = "onMouseMove"
    /\ args.scene = HoverScene(30, TRUE)
    /\ args.x = 35 /\ args.y = 15
    /\ SubSeq(elementsFromPoint(args.scene, args.x, args.y), 1, 3) = <<8, 6, 4>>
    /\ IsHoverOf("planet", Chars("sun"))

\* no probe hits a planet and the marker of the Moon is 20 px away: the hover is the
\* Moon
C35_SnapWitness ==
    /\ pc = "onMouseMove"
    /\ PlanetHits = {}
    /\ args.x = 125 /\ args.y = 15
    /\ IsHoverOf("planet", Chars("moon"))

----------------------------------------------------------------------------
(* The token of an element and the match of a glyph with an endpoint:      *)
(* report-view.tsx 497-503, 531-589, 629-635 and 1102-1109.                *)
(*                                                                         *)
(* args is [shape, spelling, endpoint]: the element carries the spelling   *)
(* of a point in the way that the shape says, and one endpoint of the      *)
(* selected aspect is spelled as endpoint says.                            *)

\* the points of the model with their spellings: the ascendant, the midheaven, the
\* node, the Sun, and the Earth, which the vocabulary does not hold
PointSpellings ==
    { Chars("asc"), Chars("ASC"), Chars("Ascendant"), Chars("mc"), Chars("MC"),
      Chars("Midheaven"), Chars("true_node"), Chars("Mean Node"), Chars("north_node"),
      Chars("True_Node"), Chars("Sun"), Chars("Earth") }

SuffixShapes == {"_glyph", "_symbol", "_label", "_point", "-marker"}

IdShapes == {"planet_", "_planet", "planet.", "sign-", "house-"} \cup SuffixShapes

TokenShapes ==
    {"data-planet", "data-body", "data-planet first", "data-body second",
     "empty data-planet"} \cup IdShapes

OnlyId(id) == [n \in {"id"} |-> id]

\* the attributes of the element of a shape for a spelling
ShapedAttributes(shape, spelling) ==
    CASE shape = "data-planet" -> [n \in {"data-planet"} |-> spelling]
      [] shape = "data-body" -> [n \in {"data-body"} |-> spelling]
      [] shape = "data-planet first" ->
             [n \in {"data-planet", "data-body", "id"} |->
                 CASE n = "data-planet" -> spelling
                   [] n = "data-body" -> Chars("Moon")
                   [] n = "id" -> Chars("planet_venus")]
      [] shape = "data-body second" ->
             [n \in {"data-body", "id"} |->
                 IF n = "data-body" THEN spelling ELSE Chars("planet_venus")]
      [] shape = "empty data-planet" ->
             [n \in {"data-planet", "data-body"} |->
                 IF n = "data-body" THEN spelling ELSE <<>>]
      [] shape \in {"planet_", "planet.", "sign-", "house-"} ->
             OnlyId(Chars(shape) \o spelling)
      [] OTHER -> OnlyId(spelling \o Chars(shape))

ShapedElement(shape, spelling) == Element("g", 0, ShapedAttributes(shape, spelling), Null)

\* the test of the loop over the glyphs (1105-1108) for the endpoints p1 and p2
GlyphMatches(element, p1, p2) ==
    /\ Truthy(extractPlanetTokenFromElement(element))
    /\ IsMatch(element, Some([p1 |-> p1, p2 |-> p2]))

InitToken ==
    /\ InitReportView
    /\ pc = "init"
    /\ args \in [shape : TokenShapes, spelling : PointSpellings, endpoint : PointSpellings]
    /\ ret = NoValue

CallExtractPlanetToken ==
    /\ pc = "init"
    /\ ret' = [token |-> extractPlanetTokenFromElement(
                             ShapedElement(args.shape, args.spelling)),
               isMatch |-> GlyphMatches(ShapedElement(args.shape, args.spelling),
                                        args.endpoint, Chars("Moon"))]
    /\ pc' = "extractPlanetTokenFromElement"
    /\ UNCHANGED args
    /\ PureFrame

NextToken == CallExtractPlanetToken

SpecToken == InitToken /\ [][NextToken]_vars

\* the point that a spelling names
PointOf(spelling) ==
    CASE spelling \in {Chars("asc"), Chars("ASC"), Chars("Ascendant")} -> "ascendant"
      [] spelling \in {Chars("mc"), Chars("MC"), Chars("Midheaven")} -> "midheaven"
      [] spelling \in {Chars("true_node"), Chars("Mean Node"), Chars("north_node"),
                       Chars("True_Node")} -> "north_node"
      [] spelling = Chars("Sun") -> "sun"
      [] spelling = Chars("Earth") -> "earth"

\* the token of a spelling: lowercased, node variants collapsed, the aliases of the
\* angles kept
TokenOfSpelling(spelling) ==
    CASE PointOf(spelling) = "north_node" -> Chars("north_node")
      [] spelling \in {Chars("asc"), Chars("ASC")} -> Chars("asc")
      [] spelling \in {Chars("mc"), Chars("MC")} -> Chars("mc")
      [] OTHER -> Chars(PointOf(spelling))

\* C36: the token of an element is taken from data-planet first, then from
\* data-body, then from the id by the patterns planet_<x>, <x>_planet and
\* <x>_glyph, _symbol, _label, _marker, _point, then from the first word of the
\* vocabulary that the id contains; an id that starts with sign- or house- gives no
\* token; true_node and mean_node are always given as north_node; and a glyph and an
\* endpoint that name the same point match, whichever aliases they use (asc and
\* ascendant, mc and midheaven, the variants of the node).
C36_TokenNormalization ==
    pc = "extractPlanetTokenFromElement" =>
        /\ IF args.shape \in {"sign-", "house-"} THEN ret.token = Null
           ELSE IF args.shape = "planet." /\ PointOf(args.spelling) = "earth"
           THEN ret.token = Null
           ELSE ret.token = Some(TokenOfSpelling(args.spelling))
        /\ ret.token \notin {Some(Chars("true_node")), Some(Chars("mean_node"))}
        /\ ret.token # Null /\ PointOf(args.spelling) = PointOf(args.endpoint) => ret.isMatch

\* a glyph with the id asc-marker and the endpoint Ascendant match
C36_Witness ==
    /\ pc = "extractPlanetTokenFromElement"
    /\ args = [shape |-> "-marker", spelling |-> Chars("asc"), endpoint |-> Chars("Ascendant")]
    /\ ret = [token |-> Some(Chars("asc")), isMatch |-> TRUE]

\* a glyph with data-body Mean Node, behind an empty data-planet, and the endpoint
\* true_node match
C36_NodeWitness ==
    /\ pc = "extractPlanetTokenFromElement"
    /\ args = [shape |-> "empty data-planet", spelling |-> Chars("Mean Node"),
               endpoint |-> Chars("true_node")]
    /\ ret = [token |-> Some(Chars("north_node")), isMatch |-> TRUE]

----------------------------------------------------------------------------
(* The selection of the chart as a state machine: onClick of the chart     *)
(* container, report-view.tsx 1744-1789.                                   *)

\* endpoints are selected only together with a line key
EndpointsNeedKey == selectedAspectEndpoints # Null => selectedAspectLineKey # Null

\* the selection after the step is what a click on the target is to give
SelectionAfterClick(target) ==
    LET interactive == Interactive(chartDom, target)
    IN  IF interactive = 0
        THEN selectedAspectLineKey' = Null /\ selectedAspectEndpoints' = Null
        ELSE IF selectedAspectLineKey = Some(getAspectLineKey(chartDom[interactive]))
        THEN selectedAspectLineKey' = Null /\ selectedAspectEndpoints' = Null
        ELSE selectedAspectLineKey' = Some(getAspectLineKey(chartDom[interactive]))

\* every step that is a click on a target gives that selection
ClickSelects ==
    \A target \in 0..Len(chartDom) : SelectionAfterClick(target) \/ ~onClickChart(target)

\* C37: in every reachable state endpoints are selected only if a line key is; a
\* click on the aspect whose key is the selected key leaves nothing selected; a
\* click on an aspect with another key makes that key the selected one; a click on
\* anything that is not an interactive aspect clears the key and the endpoints.
C37_SelectionMachine == []EndpointsNeedKey /\ [][ClickSelects]_vars

\* two clicks on two aspects, the second of which (the line without data-key, which
\* names no endpoints) replaced the first as the selection
C37_Witness ==
    /\ pc = "onClickChart"
    /\ Len(animationFrames) = 2
    /\ animationFrames[1].lineKey = Some(getAspectLineKey(chartDom[1]))
    /\ selectedAspectLineKey = Some(getAspectLineKey(chartDom[3]))
    /\ selectedAspectEndpoints = Null
    /\ getAspectLineKey(chartDom[1]) # getAspectLineKey(chartDom[3])

----------------------------------------------------------------------------
(* The acceptance windows of the canonical table, report-view.tsx 234-240,  *)
(* and what deriveAngleAspects (242-272) emits per planet.                  *)

\* the distances, between 0 and 180 degrees, that the candidate accepts
AcceptanceWindow(candidate) ==
    [lo |-> Max(0, candidate.deg - candidate.maxOrb),
     hi |-> Min(Deg(180), candidate.deg + candidate.maxOrb)]

\* the windows as stated, in hundredths of a degree
StatedWindows ==
    { <<0, 600>>, <<5550, 6450>>, <<8400, 9600>>, <<11400, 12600>>, <<17400, 18000>> }

WindowsAsStated ==
    { AcceptanceWindow(MAJOR_ANGLE_ASPECTS[c]) : c \in 1..Len(MAJOR_ANGLE_ASPECTS) }
        = { [lo |-> Centi(w[1]), hi |-> Centi(w[2])] : w \in StatedWindows }

WindowsDisjoint ==
    \A c, d \in 1..Len(MAJOR_ANGLE_ASPECTS) :
        c # d => \/ AcceptanceWindow(MAJOR_ANGLE_ASPECTS[c]).hi
                        < AcceptanceWindow(MAJOR_ANGLE_ASPECTS[d]).lo
                 \/ AcceptanceWindow(MAJOR_ANGLE_ASPECTS[d]).hi
                        < AcceptanceWindow(MAJOR_ANGLE_ASPECTS[c]).lo

\* C38: the acceptance windows of the canonical table on the circular distance are
\* [0, 6], [55.5, 64.5], [84, 96], [114, 126] and [174, 180], pairwise disjoint;
\* deriveAngleAspects emits at most one aspect per planet for the angle, and
\* the orb of every emitted aspect lies between 0 and the maximum orb of its type.
C38_OneAspectPerPlanet ==
    /\ WindowsAsStated
    /\ WindowsDisjoint
    /\ pc = "deriveAngleAspects" =>
           /\ \A r, q \in 1..Len(ret) : ret[r].p2 = ret[q].p2 => r = q
           /\ \A r \in 1..Len(ret) :
                  \E c \in 1..Len(MAJOR_ANGLE_ASPECTS) :
                      /\ MAJOR_ANGLE_ASPECTS[c].type = ret[r].type
                      /\ 0 <= ret[r].orb
                      /\ ret[r].orb <= MAJOR_ANGLE_ASPECTS[c].maxOrb

\* two planets at the edges of two windows, 174 and 55.5 degrees from the
\* ascendant: one aspect each, at the full orb of its type
C38_Witness ==
    /\ pc = "deriveAngleAspects"
    /\ args.angleAbsPos = Some(Deg(0))
    /\ Len(args.planets) = 2
    /\ args.planets[1].abs_pos = Deg(174)
    /\ args.planets[2].abs_pos = Centi(5550)
    /\ Len(ret) = 2
    /\ \E r \in 1..2 : ret[r].p2 = "sun" /\ ret[r].type = "opposition" /\ ret[r].orb = Deg(6)
    /\ \E r \in 1..2 : ret[r].p2 = "moon" /\ ret[r].type = "sextile" /\ ret[r].orb = Centi(450)

----------------------------------------------------------------------------
(* getAspectPhase (report-view.tsx 440-462) and the order of the endpoints. *)

\* the aspect with its endpoints exchanged
SwappedAspect(aspect) == [aspect EXCEPT !.p1 = aspect.p2, !.p2 = aspect.p1]

\* C39: getAspectPhase does not depend on the order of the endpoints: for every
\* aspect and point state, the aspect with p1 and p2 exchanged has the same phase.
C39_PhaseSymmetric ==
    pc = "getAspectPhase" =>
        ret = getAspectPhase(SwappedAspect(args.aspect), pointState(args.data))

\* the Moon, 95 degrees ahead of a retrograde Sun, named first in a square: the
\* signed separation is negative, and the phase is that of the aspect Sun-Moon
C39_Witness ==
    /\ pc = "getAspectPhase"
    /\ args.aspect = [p1 |-> "moon", p2 |-> "Sun", deg |-> Deg(90)]
    /\ args.data.planets[1].abs_pos = Deg(10)
    /\ args.data.planets[1].speed = Some(1000)
    /\ args.data.planets[1].retrograde
    /\ args.data.planets[2].abs_pos = Deg(105)
    /\ args.data.planets[2].speed = Some(13000)
    /\ ~args.data.planets[2].retrograde
    /\ ret = "Separating"
    /\ getAspectPhase([p1 |-> "Sun", p2 |-> "moon", deg |-> Deg(90)],
                      pointState(args.data)) = "Separating"

----------------------------------------------------------------------------
(* The skip flag of the city field: city-autocomplete.tsx 23-43, 118-128.  *)

\* the click on a result leaves the flag reset and no timer pending
SelectionConsumesSkip ==
    \A i \in 1..Len(Gazetteer) :
        \/ ~cityField'.skipNextSearchRef /\ cityField'.timer = Null
        \/ ~onSelectCityAt(Gazetteer[i])

\* an edit to a query of 2 characters or more after trimming sets the timer of its
\* search
EditSetsTimer ==
    \A next \in TypedSamples :
        \/ Len(StringTrim(next)) < 2
        \/ cityField'.timer = Some(next)
        \/ ~onChangeAt(next)

\* C40: the click on a suggestion suppresses exactly one search: no search is
\* pending for the text that the selection fills in, and the flag is consumed by
\* that change of the query, also when the text filled in is the text of the
\* input; so the next edit to a query of trimmed length 2 or more sets the timer
\* of a search.
C40_SkipsExactlyOne == [][SelectionConsumesSkip]_vars /\ [][EditSetsTimer]_vars

\* the same for the clicks that change the text of the input
SelectionOfOtherTextConsumesSkip ==
    \A i \in 1..Len(Gazetteer) :
        \/ CityLabel(Gazetteer[i]) = cityField.query
        \/ ~cityField'.skipNextSearchRef /\ cityField'.timer = Null
        \/ ~onSelectCityAt(Gazetteer[i])

\* and for the edits made while the flag is reset
EditWithoutSkipSetsTimer ==
    \A next \in TypedSamples :
        \/ cityField.skipNextSearchRef
        \/ Len(StringTrim(next)) < 2
        \/ cityField'.timer = Some(next)
        \/ ~onChangeAt(next)

\* the flag is set only by a click on the suggestion whose label the input holds
SkipOnlyAfterSameText ==
    cityField.skipNextSearchRef =>
        /\ cityField.selectedCity # Null
        /\ cityField.query = CityLabel(cityField.selectedCity[1])

C40_WhenTextChanges ==
    /\ [][SelectionOfOtherTextConsumesSkip]_vars
    /\ [][EditWithoutSkipSetsTimer]_vars
    /\ []SkipOnlyAfterSameText

\* the flag left set by a click on the suggestion whose label the input holds
C40_SkipLeftSet ==
    /\ cityField.skipNextSearchRef
    /\ cityField.selectedCity # Null
    /\ cityField.query = CityLabel(cityField.selectedCity[1])

=============================================================================
